---- MODULE Spec2Model ----
(***************************************************************************)
(* Bgpt: the command safety pipeline (CommandParser, SafetyChecker), the   *)
(* orchestrator Bgpt.process_query that consumes it, and its collaborators *)
(* AIEngine.generate_command and HistoryManager.                           *)
(*                                                                         *)
(* A Python str is a sequence of one-character strings, so that substring  *)
(* containment, stripping, splitting and pattern matching are computed on  *)
(* the characters, as the code computes them.                              *)
(***************************************************************************)
EXTENDS Integers, Sequences, FiniteSets, TLC

(***************************************************************************)
(* Bounds of the model.                                                    *)
(***************************************************************************)
\* raw_command texts handed to check_command are concatenations of at most
\* MaxFrags fragments of SafetyFragments
MaxFrags == 2
\* the iteration orders of a Python set of str that the model draws
\* (the order depends on the process's string hash seed)
NSeeds == 2
\* command texts handed to parse are concatenations of at most MaxParseFrags
\* fragments of ParseFragments
MaxParseFrags == 3
\* the number of process_query calls of a behaviour
MaxQueries == 2
\* generated commands handed to parse and then to check_command are
\* concatenations of at most MaxPipeFrags fragments of PipelineFragments
MaxPipeFrags == 3
\* command texts handed to is_destructive and validate_syntax are
\* concatenations of at most MaxToolFrags fragments
MaxToolFrags == 3
\* the arguments and the flags of the ParsedCommand values handed to
\* get_command_info are lists of at most MaxWords words
MaxWords == 4
\* the threads that call parse and check_command on the shared CommandParser
\* and SafetyChecker instances
NThreads == 2

\* fragments in a command whose parsed fields are examined
MaxFieldsFrags == 3

\* calls of add_entry after HistoryManager loaded its file
MaxAdds == 2

(***************************************************************************)
(* str helpers                                                             *)
(***************************************************************************)
Range(s) == {s[i] : i \in DOMAIN s}

\* str.isspace / the whitespace str.strip and str.split() remove
Whitespace == {" ", "\t"}

\* `sub in s`
Contains(s, sub) ==
    \E i \in 0..(Len(s) - Len(sub)) : SubSeq(s, i + 1, i + Len(sub)) = sub

\* s.startswith(p)
StartsWith(s, p) == Len(s) >= Len(p) /\ SubSeq(s, 1, Len(p)) = p

\* s.endswith(p)
EndsWith(s, p) == Len(s) >= Len(p) /\ SubSeq(s, Len(s) - Len(p) + 1, Len(s)) = p

RECURSIVE LStrip(_)
LStrip(s) == IF s # <<>> /\ Head(s) \in Whitespace THEN LStrip(Tail(s)) ELSE s

RECURSIVE RStrip(_)
RStrip(s) ==
    IF s # <<>> /\ s[Len(s)] \in Whitespace THEN RStrip(SubSeq(s, 1, Len(s) - 1)) ELSE s

\* s.strip()
Strip(s) == RStrip(LStrip(s))

\* every concatenation of at most n fragments of F
RECURSIVE Concats(_, _)
Concats(F, n) ==
    IF n = 0 THEN {<<>>}
    ELSE LET S == Concats(F, n - 1) IN S \cup {s \o f : s \in S, f \in F}

(***************************************************************************)
(* Iteration order of a set literal of str.  CPython iterates a set in     *)
(* hash-table order, and str hashes are salted per process: the order is   *)
(* fixed within a process and arbitrary across processes.  seq lists the   *)
(* elements in source order; seed selects one order of the family          *)
(* (rotations and their reversals, so that every pair of elements occurs   *)
(* in both relative orders as soon as two seeds are drawn).                *)
(***************************************************************************)
Rot(seq, k) == [i \in 1..Len(seq) |-> seq[((i - 1 + k) % Len(seq)) + 1]]

Rev(seq) == [i \in 1..Len(seq) |-> seq[Len(seq) + 1 - i]]

IterOrder(seq, seed) ==
    IF seed % 2 = 0 THEN Rot(seq, seed \div 2) ELSE Rev(Rot(seq, seed \div 2))

(***************************************************************************)
(* re.  A pattern is kept as its source text.  Compile turns the text into *)
(* a sequence of atoms, an atom being a character class (a literal, \s,    *)
(* \S, \d or .) with a quantifier (one, * or +); the pattern tables use no *)
(* other construct.  Ends(pat, k, s, i) is the set of positions at which a *)
(* match of atoms k.. that starts at position i of s can end.              *)
(***************************************************************************)
Digits == {"0", "1", "2", "3", "4", "5", "6", "7", "8", "9"}

RECURSIVE Compile(_)
Compile(t) ==
    IF t = <<>> THEN <<>>
    ELSE LET esc == Head(t) = "\\"
             n == IF esc THEN 2 ELSE 1
             ch == t[n]
             kind == IF esc
                     THEN CASE ch = "s" -> "space"
                            [] ch = "S" -> "nonspace"
                            [] ch = "d" -> "digit"
                            [] OTHER -> "lit"
                     ELSE IF ch = "." THEN "any" ELSE "lit"
             hasQ == Len(t) > n /\ t[n + 1] \in {"*", "+"}
         IN <<[kind |-> kind, c |-> ch, q |-> IF hasQ THEN t[n + 1] ELSE "1"]>>
            \o Compile(SubSeq(t, n + (IF hasQ THEN 2 ELSE 1), Len(t)))

InClass(a, ch) ==
    CASE a.kind = "lit" -> ch = a.c
      [] a.kind = "space" -> ch \in Whitespace
      [] a.kind = "nonspace" -> ch \notin Whitespace
      [] a.kind = "digit" -> ch \in Digits
      [] a.kind = "any" -> ch # "\n"

RECURSIVE Ends(_, _, _, _)
Ends(pat, k, s, i) ==
    IF k > Len(pat) THEN {i}
    ELSE LET a == pat[k]
             hit == i <= Len(s) /\ InClass(a, s[i])
         IN CASE a.q = "1" -> IF hit THEN Ends(pat, k + 1, s, i + 1) ELSE {}
              [] a.q = "*" -> Ends(pat, k + 1, s, i)
                              \cup (IF hit THEN Ends(pat, k, s, i + 1) ELSE {})
              [] a.q = "+" -> IF hit
                              THEN Ends(pat, k + 1, s, i + 1) \cup Ends(pat, k, s, i + 1)
                              ELSE {}


(***************************************************************************)
(* More of str: split, replace, isidentifier; list indexing                *)
(***************************************************************************)
Lower == {"a", "b", "c", "d", "e", "f", "g", "h", "i", "j", "k", "l", "m",
          "n", "o", "p", "q", "r", "s", "t", "u", "v", "w", "x", "y", "z"}
Upper == {"A", "B", "C", "D", "E", "F", "G", "H", "I", "J", "K", "L", "M",
          "N", "O", "P", "Q", "R", "S", "T", "U", "V", "W", "X", "Y", "Z"}

\* the number of leading characters of s that are not whitespace
RECURSIVE WordLen(_)
WordLen(s) == IF s = <<>> \/ Head(s) \in Whitespace THEN 0 ELSE 1 + WordLen(Tail(s))

\* s.split(): the whitespace-delimited words of s
RECURSIVE SplitWS(_)
SplitWS(s) ==
    LET t == LStrip(s)
        n == WordLen(t)
    IN IF t = <<>> THEN <<>>
       ELSE <<SubSeq(t, 1, n)>> \o SplitWS(SubSeq(t, n + 1, Len(t)))

\* s.find(ch) + 1: the position of the first ch in s, 0 when there is none
RECURSIVE Find(_, _)
Find(s, ch) ==
    IF s = <<>> THEN 0
    ELSE IF Head(s) = ch THEN 1
    ELSE LET r == Find(Tail(s), ch) IN IF r = 0 THEN 0 ELSE r + 1

\* s.split(ch): at least one piece
RECURSIVE SplitOn(_, _)
SplitOn(s, ch) ==
    LET n == Find(s, ch)
    IN IF n = 0 THEN <<s>>
       ELSE <<SubSeq(s, 1, n - 1)>> \o SplitOn(SubSeq(s, n + 1, Len(s)), ch)

\* s.split(ch, 1): one piece, or two
SplitOnce(s, ch) ==
    LET n == Find(s, ch)
    IN IF n = 0 THEN <<s>> ELSE <<SubSeq(s, 1, n - 1), SubSeq(s, n + 1, Len(s))>>

\* s.replace(old, ''), old not empty
RECURSIVE Remove(_, _)
Remove(s, old) ==
    IF s = <<>> THEN <<>>
    ELSE IF StartsWith(s, old) THEN Remove(SubSeq(s, Len(old) + 1, Len(s)), old)
    ELSE <<Head(s)>> \o Remove(Tail(s), old)

\* s.isidentifier(), on ASCII text
IsIdentifier(s) ==
    /\ s # <<>>
    /\ Head(s) \in Lower \cup Upper \cup {"_"}
    /\ \A i \in DOMAIN s : s[i] \in Lower \cup Upper \cup Digits \cup {"_"}

\* an evaluation either yields a value or raises
Value(v) == [raised |-> FALSE, value |-> v]
Raise(e) == [raised |-> TRUE, exc |-> e]

\* None of Python
None == [none |-> TRUE]

\* seq[i - 1] of Python: IndexError outside the list
Index(seq, i) == IF i \in DOMAIN seq THEN Value(seq[i]) ELSE Raise("IndexError")

(***************************************************************************)
(* shlex.split(s): POSIX mode, whitespace_split, no comments.  The scanner *)
(* of shlex.read_token: st is its state (" " between words, "a" in a word, *)
(* a quote character inside quotes, "\\" after an escape), est the state   *)
(* an escape returns to, tok the word being built, quoted whether the word *)
(* had a quoted part (an empty quoted word is a word), out the words read. *)
(***************************************************************************)
Quotes == {"'", "\""}

RECURSIVE ShlexScan(_, _, _, _, _, _, _)
ShlexScan(s, i, st, est, tok, quoted, out) ==
    IF i > Len(s)
    THEN CASE st \in Quotes -> Raise("ValueError: No closing quotation")
           [] st = "\\" -> Raise("ValueError: No escaped character")
           [] OTHER -> Value(IF tok # <<>> \/ quoted THEN Append(out, tok) ELSE out)
    ELSE LET ch == s[i] IN
         CASE st = " " ->
                IF ch \in Whitespace THEN ShlexScan(s, i + 1, " ", est, tok, quoted, out)
                ELSE IF ch = "\\" THEN ShlexScan(s, i + 1, "\\", "a", tok, quoted, out)
                ELSE IF ch \in Quotes THEN ShlexScan(s, i + 1, ch, est, tok, quoted, out)
                ELSE ShlexScan(s, i + 1, "a", est, <<ch>>, quoted, out)
           [] st \in Quotes ->
                IF ch = st THEN ShlexScan(s, i + 1, "a", est, tok, TRUE, out)
                ELSE IF ch = "\\" /\ st = "\""
                     THEN ShlexScan(s, i + 1, "\\", st, tok, TRUE, out)
                ELSE ShlexScan(s, i + 1, st, est, Append(tok, ch), TRUE, out)
           [] st = "\\" ->
                ShlexScan(s, i + 1, est, est,
                          (IF est \in Quotes /\ ch # "\\" /\ ch # est
                           THEN Append(tok, "\\") ELSE tok) \o <<ch>>,
                          quoted, out)
           [] st = "a" ->
                IF ch \in Whitespace
                THEN ShlexScan(s, i + 1, " ", est, <<>>, FALSE,
                               IF tok # <<>> \/ quoted THEN Append(out, tok) ELSE out)
                ELSE IF ch \in Quotes THEN ShlexScan(s, i + 1, ch, est, tok, quoted, out)
                ELSE IF ch = "\\" THEN ShlexScan(s, i + 1, "\\", "a", tok, quoted, out)
                ELSE ShlexScan(s, i + 1, "a", est, Append(tok, ch), quoted, out)

shlex_split(s) == ShlexScan(s, 1, " ", "a", <<>>, FALSE, <<>>)

(***************************************************************************)
(* CommandParser (core/command_parser.py)                                  *)
(***************************************************************************)
\* the dict literal DESTRUCTIVE_PATTERNS: its items, in insertion order
\* (the order a dict iterates in)
DESTRUCTIVE_PATTERNS ==
    << [pattern |-> <<"r","m","\\","s","+","-","r","f","\\","s","+","/">>,
        description |-> <<"R","e","c","u","r","s","i","v","e"," ","d","e","l","e","t","i","o","n"," ","o","f"," ","r","o","o","t"," ","d","i","r","e","c","t","o","r","y">>],
       [pattern |-> <<"d","d","\\","s","+",".","*","o","f","=","/","d","e","v","/">>,
        description |-> <<"D","i","r","e","c","t"," ","d","i","s","k"," ","w","r","i","t","i","n","g"," ","o","p","e","r","a","t","i","o","n">>],
       [pattern |-> <<"m","k","f","s","\\",".","*">>,
        description |-> <<"F","i","l","e"," ","s","y","s","t","e","m"," ","f","o","r","m","a","t","t","i","n","g">>],
       [pattern |-> <<"f","d","i","s","k",".","*">>,
        description |-> <<"D","i","s","k"," ","p","a","r","t","i","t","i","o","n","i","n","g">>],
       [pattern |-> <<"f","o","r","m","a","t","\\","s","+">>,
        description |-> <<"D","r","i","v","e"," ","f","o","r","m","a","t","t","i","n","g">>],
       [pattern |-> <<":","\\","(","\\",")","\\","{",".","*","\\","}">>,
        description |-> <<"F","o","r","k"," ","b","o","m","b"," ","p","a","t","t","e","r","n">>],
       [pattern |-> <<"c","h","m","o","d","\\","s","+","7","7","7">>,
        description |-> <<"O","v","e","r","l","y"," ","p","e","r","m","i","s","s","i","v","e"," ","p","e","r","m","i","s","s","i","o","n","s">>],
       [pattern |-> <<"c","h","o","w","n","\\","s","+",".","*",":","\\","s","*","/">>,
        description |-> <<"R","o","o","t"," ","o","w","n","e","r","s","h","i","p"," ","c","h","a","n","g","e">>] >>

\* the set literal FILE_PATTERNS, in source order
FILE_PATTERNS ==
    << <<"c","p","\\","s","+">>,
       <<"m","v","\\","s","+">>,
       <<"r","m","\\","s","+">>,
       <<"m","k","d","i","r","\\","s","+">>,
       <<"r","m","d","i","r","\\","s","+">>,
       <<"t","o","u","c","h","\\","s","+">>,
       <<"l","n","\\","s","+">>,
       <<"t","a","r","\\","s","+">>,
       <<"z","i","p","\\","s","+">>,
       <<"u","n","z","i","p","\\","s","+">> >>

\* the set literal NETWORK_PATTERNS, in source order
NETWORK_PATTERNS ==
    << <<"c","u","r","l","\\","s","+">>,
       <<"w","g","e","t","\\","s","+">>,
       <<"s","s","h","\\","s","+">>,
       <<"s","c","p","\\","s","+">>,
       <<"r","s","y","n","c","\\","s","+",".","*","@">>,
       <<"n","c","\\","s","+">>,
       <<"n","e","t","c","a","t","\\","s","+">>,
       <<"t","e","l","n","e","t","\\","s","+">>,
       <<"f","t","p","\\","s","+">>,
       <<"s","f","t","p","\\","s","+">> >>

\* the set literal SYSTEM_PATTERNS, in source order
SYSTEM_PATTERNS ==
    << <<"s","y","s","t","e","m","c","t","l","\\","s","+">>,
       <<"s","e","r","v","i","c","e","\\","s","+">>,
       <<"m","o","u","n","t","\\","s","+">>,
       <<"u","m","o","u","n","t","\\","s","+">>,
       <<"m","o","d","p","r","o","b","e","\\","s","+">>,
       <<"i","n","s","m","o","d","\\","s","+">>,
       <<"r","m","m","o","d","\\","s","+">>,
       <<"i","p","t","a","b","l","e","s","\\","s","+">> >>

\* re's cache of compiled patterns: the patterns of the tables, compiled once
CompiledPatterns ==
    [p \in Range(FILE_PATTERNS) \cup Range(NETWORK_PATTERNS) \cup Range(SYSTEM_PATTERNS)
            \cup {DESTRUCTIVE_PATTERNS[i].pattern : i \in DOMAIN DESTRUCTIVE_PATTERNS}
        |-> Compile(p)]

\* re.search(pattern, s) is not None
Search(pattern, s) ==
    LET pat == IF pattern \in DOMAIN CompiledPatterns THEN CompiledPatterns[pattern]
               ELSE Compile(pattern)
    IN \E i \in 1..(Len(s) + 1) : Ends(pat, 1, s, i) # {}

\* the loop of _extract_env_vars over command.split(), on the dict env_vars
\* (a function from keys to values; a later key overrides an earlier one).
\* `key, value = part.split('=', 1)` raises unless the split gives two pieces.
RECURSIVE EnvLoop(_, _)
EnvLoop(parts, env_vars) ==
    IF parts = <<>> THEN Value(env_vars)
    ELSE LET part == Head(parts)
             kv == SplitOnce(part, "=")
         IN IF "=" \in Range(part) /\ ~StartsWith(part, <<"-">>)
            THEN IF Len(kv) # 2 THEN Raise("ValueError")
                 ELSE IF IsIdentifier(kv[1])
                      THEN EnvLoop(Tail(parts), (kv[1] :> kv[2]) @@ env_vars)
                      ELSE EnvLoop(Tail(parts), env_vars)
            ELSE EnvLoop(Tail(parts), env_vars)

_extract_env_vars(command) == EnvLoop(SplitWS(command), <<>>)

_extract_pipes(command) ==
    IF "|" \in Range(command)
    THEN LET parts == Tail(SplitOn(command, "|"))
         IN [i \in DOMAIN parts |-> Strip(parts[i])]
    ELSE <<>>

Max(S) == CHOOSE x \in S : \A y \in S : y <= x

\* the two alternatives of r'(\d*>>\?|\d*>)', and r'<\s*(\S+)' with the part
\* of it that precedes its group, compiled
OutAlt1 == Compile(<<"\\","d","*",">",">","\\","?">>)
OutAlt2 == Compile(<<"\\","d","*",">">>)
InPattern == Compile(<<"<","\\","s","*","\\","S","+">>)
InPrefix == Compile(<<"<","\\","s","*">>)

\* the end of the match of (\d*>>\?|\d*>) that starts at position i of s
\* (0: none there); the first alternative is tried first
OutMatchEnd(s, i) ==
    LET e1 == Ends(OutAlt1, 1, s, i)
        e2 == Ends(OutAlt2, 1, s, i)
    IN IF e1 # {} THEN Max(e1) ELSE IF e2 # {} THEN Max(e2) ELSE 0

\* re.finditer(r'(\d*>>\?|\d*>)', command) from position i on, and the
\* body of the loop over its matches
RECURSIVE OutRedirections(_, _)
OutRedirections(command, i) ==
    IF i > Len(command) THEN <<>>
    ELSE LET e == OutMatchEnd(command, i)
             remaining == Strip(SubSeq(command, e, Len(command)))
         IN IF e = 0 THEN OutRedirections(command, i + 1)
            ELSE (IF remaining # <<>>
                  THEN << <<SubSeq(command, i, e - 1), SplitWS(remaining)[1]>> >>
                  ELSE <<>>)
                 \o OutRedirections(command, e)

\* re.finditer(r'<\s*(\S+)', command) from position i on, and the body of
\* the loop over its matches; group(1) is the greedy \S+ at the match's end
RECURSIVE InRedirections(_, _)
InRedirections(command, i) ==
    IF i > Len(command) THEN <<>>
    ELSE LET es == Ends(InPattern, 1, command, i)
             g == Max(Ends(InPrefix, 1, command, i))
         IN IF es = {} THEN InRedirections(command, i + 1)
            ELSE << << <<"<">>, SubSeq(command, g, Max(es) - 1) >> >>
                 \o InRedirections(command, Max(es))

_extract_redirections(command) ==
    OutRedirections(command, 1) \o InRedirections(command, 1)

\* pattern.replace(r'\s+', '').replace(r'\+', '')
Label(pattern) == Remove(Remove(pattern, <<"\\","s","+">>), <<"\\","+">>)

\* faulty variant: the patterns are searched in the head segment only
RECURSIVE AnalyzeLoopHeadOnly(_, _)
AnalyzeLoopHeadOnly(order, command) ==
    IF order = <<>> THEN <<>>
    ELSE (IF Search(Head(order), SplitOn(command, "|")[1]) THEN <<Label(Head(order))>>
          ELSE <<>>)
         \o AnalyzeLoopHeadOnly(Tail(order), command)

\* the loop `for pattern in <set>` of the three _analyze_ methods, over the
\* set in iteration order
RECURSIVE AnalyzeLoop(_, _)
AnalyzeLoop(order, command) ==
    IF order = <<>> THEN <<>>
    ELSE (IF Search(Head(order), command) THEN <<Label(Head(order))>> ELSE <<>>)
         \o AnalyzeLoop(Tail(order), command)

_analyze_file_operations(command, seed) ==
    AnalyzeLoop(IterOrder(FILE_PATTERNS, seed), command)

_analyze_network_operations(command, seed) ==
    AnalyzeLoop(IterOrder(NETWORK_PATTERNS, seed), command)

_analyze_system_operations(command, seed) ==
    AnalyzeLoop(IterOrder(SYSTEM_PATTERNS, seed), command)

\* the loop `for part in parts[1:]`, on the lists (arguments, flags)
RECURSIVE PartsLoop(_, _)
PartsLoop(parts, acc) ==
    IF parts = <<>> THEN acc
    ELSE PartsLoop(Tail(parts),
                   IF StartsWith(Head(parts), <<"-">>)
                   THEN [acc EXCEPT !.flags = Append(@, Head(parts))]
                   ELSE [acc EXCEPT !.arguments = Append(@, Head(parts))])

Sudo == <<"s","u","d","o"," ">>

\* faulty variant: raw_command is put together without the sudo prefix
parse_try_raw_without_sudo(command0, seed) ==
    LET command1 == Strip(command0)
        uses_sudo == StartsWith(command1, Sudo)
        command2 == IF uses_sudo THEN Strip(SubSeq(command1, 6, Len(command1)))
                    ELSE command1
        env_vars == _extract_env_vars(command2)
        background == EndsWith(command2, <<" ","&">>)
        command == IF background THEN Strip(SubSeq(command2, 1, Len(command2) - 2))
                   ELSE command2
        pipes == _extract_pipes(command)
        redirections == _extract_redirections(command)
        head == SplitOn(SplitOn(SplitOn(command, "|")[1], ">")[1], "<")[1]
        parts == shlex_split(head)
        base_command == Index(parts.value, 1)
        rest == PartsLoop(Tail(parts.value), [arguments |-> <<>>, flags |-> <<>>])
    IN IF env_vars.raised THEN [raised |-> TRUE, exc |-> env_vars.exc, command |-> command2]
       ELSE IF parts.raised THEN [raised |-> TRUE, exc |-> parts.exc, command |-> command]
       ELSE IF parts.value = <<>>
            THEN [raised |-> TRUE, exc |-> "ValueError: Empty command", command |-> command]
       ELSE IF base_command.raised
            THEN [raised |-> TRUE, exc |-> base_command.exc, command |-> command]
       ELSE Value([raw_command |-> command \o (IF background THEN <<"&">> ELSE <<>>),
                   base_command |-> base_command.value,
                   arguments |-> rest.arguments,
                   flags |-> rest.flags,
                   redirections |-> redirections,
                   pipes |-> pipes,
                   environment_vars |-> env_vars.value,
                   background |-> background,
                   uses_sudo |-> uses_sudo,
                   file_operations |-> _analyze_file_operations(command, seed),
                   network_operations |-> _analyze_network_operations(command, seed),
                   system_operations |-> _analyze_system_operations(command, seed)])

\* the try block of parse: the ParsedCommand it returns, or the exception it
\* raises together with the value the local `command` has at that point
parse_try(command0, seed) ==
    LET command1 == Strip(command0)
        uses_sudo == StartsWith(command1, Sudo)
        command2 == IF uses_sudo THEN Strip(SubSeq(command1, 6, Len(command1)))
                    ELSE command1
        env_vars == _extract_env_vars(command2)
        background == EndsWith(command2, <<" ","&">>)
        command == IF background THEN Strip(SubSeq(command2, 1, Len(command2) - 2))
                   ELSE command2
        pipes == _extract_pipes(command)
        redirections == _extract_redirections(command)
        head == SplitOn(SplitOn(SplitOn(command, "|")[1], ">")[1], "<")[1]
        parts == shlex_split(head)
        base_command == Index(parts.value, 1)
        rest == PartsLoop(Tail(parts.value), [arguments |-> <<>>, flags |-> <<>>])
    IN IF env_vars.raised THEN [raised |-> TRUE, exc |-> env_vars.exc, command |-> command2]
       ELSE IF parts.raised THEN [raised |-> TRUE, exc |-> parts.exc, command |-> command]
       ELSE IF parts.value = <<>>
            THEN [raised |-> TRUE, exc |-> "ValueError: Empty command", command |-> command]
       ELSE IF base_command.raised
            THEN [raised |-> TRUE, exc |-> base_command.exc, command |-> command]
       ELSE Value([raw_command |-> (IF uses_sudo THEN Sudo ELSE <<>>) \o command
                                   \o (IF background THEN <<"&">> ELSE <<>>),
                   base_command |-> base_command.value,
                   arguments |-> rest.arguments,
                   flags |-> rest.flags,
                   redirections |-> redirections,
                   pipes |-> pipes,
                   environment_vars |-> env_vars.value,
                   background |-> background,
                   uses_sudo |-> uses_sudo,
                   file_operations |-> _analyze_file_operations(command, seed),
                   network_operations |-> _analyze_network_operations(command, seed),
                   system_operations |-> _analyze_system_operations(command, seed)])

\* faulty variant: the handler takes command.split()[0] without the guard
parse_except_unguarded(command) ==
    LET base_command == Index(SplitWS(command), 1)
    IN IF base_command.raised THEN Raise(base_command.exc)
       ELSE Value([raw_command |-> command,
                   base_command |-> base_command.value,
                   arguments |-> <<>>, flags |-> <<>>, redirections |-> <<>>,
                   pipes |-> <<>>, environment_vars |-> <<>>,
                   background |-> FALSE,
                   uses_sudo |-> StartsWith(command, Sudo),
                   file_operations |-> <<>>, network_operations |-> <<>>,
                   system_operations |-> <<>>])

\* faulty variant: the degraded result keeps only the first token as raw_command
parse_except_first_token(command) ==
    LET words == SplitWS(command)
        base_command == IF words # <<>> THEN words[1] ELSE <<>>
    IN Value([raw_command |-> base_command,
              base_command |-> base_command,
              arguments |-> <<>>, flags |-> <<>>, redirections |-> <<>>,
              pipes |-> <<>>, environment_vars |-> <<>>,
              background |-> FALSE,
              uses_sudo |-> StartsWith(command, Sudo),
              file_operations |-> <<>>, network_operations |-> <<>>,
              system_operations |-> <<>>])

\* the except block of parse, on the value of the local `command` when the
\* exception was raised
parse_except(command) ==
    LET words == SplitWS(command)
        base_command == IF words # <<>> THEN Index(words, 1) ELSE Value(<<>>)
    IN IF base_command.raised THEN Raise(base_command.exc)
       ELSE Value([raw_command |-> command,
                   base_command |-> base_command.value,
                   arguments |-> <<>>, flags |-> <<>>, redirections |-> <<>>,
                   pipes |-> <<>>, environment_vars |-> <<>>,
                   background |-> FALSE,
                   uses_sudo |-> StartsWith(command, Sudo),
                   file_operations |-> <<>>, network_operations |-> <<>>,
                   system_operations |-> <<>>])

\* parse(command) in a process whose set iteration order is the one of seed:
\* Value(ParsedCommand), or the exception that escapes
parse(command, seed) ==
    LET t == parse_try(command, seed)
    IN IF t.raised THEN parse_except(t.command) ELSE t

\* str.lower on ASCII text, character by character
LowerCase == <<"a","b","c","d","e","f","g","h","i","j","k","l","m","n","o","p","q","r","s","t","u","v","w","x","y","z">>
UpperCase == <<"A","B","C","D","E","F","G","H","I","J","K","L","M","N","O","P","Q","R","S","T","U","V","W","X","Y","Z">>
ToLower(ch) ==
    IF \E i \in DOMAIN UpperCase : UpperCase[i] = ch
    THEN LowerCase[CHOOSE i \in DOMAIN UpperCase : UpperCase[i] = ch]
    ELSE ch

\* re.search(pattern, s, re.IGNORECASE) is not None: a literal of the pattern
\* matches a character of either case
CompileIgnoreCase(pattern) ==
    LET c == IF pattern \in DOMAIN CompiledPatterns THEN CompiledPatterns[pattern]
             ELSE Compile(pattern)
    IN [k \in DOMAIN c |->
           IF c[k].kind = "lit" THEN [c[k] EXCEPT !.c = ToLower(@)] ELSE c[k]]

\* re's cache, for the patterns of the destructive table
CompiledIgnoreCase ==
    [p \in {DESTRUCTIVE_PATTERNS[i].pattern : i \in DOMAIN DESTRUCTIVE_PATTERNS}
        |-> CompileIgnoreCase(p)]

SearchIgnoreCase(pattern, s) ==
    LET pat == IF pattern \in DOMAIN CompiledIgnoreCase THEN CompiledIgnoreCase[pattern]
               ELSE CompileIgnoreCase(pattern)
        low == [i \in DOMAIN s |-> ToLower(s[i])]
    IN \E i \in 1..(Len(s) + 1) : Ends(pat, 1, low, i) # {}

\* faulty variant: the patterns are matched without re.IGNORECASE
RECURSIVE DestructiveLoopCaseSensitive(_, _)
DestructiveLoopCaseSensitive(items, command) ==
    IF items = <<>> THEN <<>>
    ELSE (IF Search(Head(items).pattern, command)
          THEN <<Head(items).description>> ELSE <<>>)
         \o DestructiveLoopCaseSensitive(Tail(items), command)

\* the loop `for pattern, description in self.DESTRUCTIVE_PATTERNS.items()`,
\* on the list warnings
RECURSIVE DestructiveLoop(_, _)
DestructiveLoop(items, command) ==
    IF items = <<>> THEN <<>>
    ELSE (IF SearchIgnoreCase(Head(items).pattern, command)
          THEN <<Head(items).description>> ELSE <<>>)
         \o DestructiveLoop(Tail(items), command)

\* is_destructive(command): the tuple (len(warnings) > 0, warnings)
is_destructive(command) ==
    LET warnings == DestructiveLoop(DESTRUCTIVE_PATTERNS, command)
    IN <<Len(warnings) > 0, warnings>>

\* s.count(ch)
Count(s, ch) == Cardinality({i \in DOMAIN s : s[i] = ch})

\* the exceptions of shlex.split that are ValueErrors, and their messages
ValueErrorMessage ==
    [x \in {"ValueError: No closing quotation", "ValueError: No escaped character"} |->
        IF x = "ValueError: No closing quotation"
        THEN <<"N","o"," ","c","l","o","s","i","n","g"," ","q","u","o","t","a","t","i","o","n">>
        ELSE <<"N","o"," ","e","s","c","a","p","e","d"," ","c","h","a","r","a","c","t","e","r">>]

\* f"Shell syntax error: {e}"
ShellSyntaxError(e) ==
    <<"S","h","e","l","l"," ","s","y","n","t","a","x"," ","e","r","r","o","r",":"," ">> \o e

UnmatchedDouble ==
    <<"U","n","m","a","t","c","h","e","d"," ","d","o","u","b","l","e"," ","q","u","o","t","e","s">>

UnmatchedSingle ==
    <<"U","n","m","a","t","c","h","e","d"," ","s","i","n","g","l","e"," ","q","u","o","t","e","s">>

DangerousRm ==
    <<"P","o","t","e","n","t","i","a","l","l","y"," ","d","a","n","g","e","r","o","u","s"," ","r","m"," ","c","o","m","m","a","n","d"," ","w","i","t","h"," ","w","i","l","d","c","a","r","d","s">>

\* faulty variant: only the double quotes are counted
validate_syntax_double_only(command) ==
    LET t == shlex_split(command)
        errors == (IF t.raised THEN <<ShellSyntaxError(ValueErrorMessage[t.exc])>> ELSE <<>>)
                  \o (IF Count(command, "\"") % 2 # 0 THEN <<UnmatchedDouble>> ELSE <<>>)
                  \o (IF /\ Contains(command, <<"r","m">>)
                         /\ Contains(command, <<"-","r","f">>)
                         /\ (Contains(command, <<"*">>) \/ Contains(command, <<"/">>))
                      THEN <<DangerousRm>> ELSE <<>>)
    IN Value(<<Len(errors) = 0, errors>>)

\* validate_syntax(command): Value((len(errors) == 0, errors)), or the
\* exception of shlex.split that `except ValueError` does not catch
validate_syntax(command) ==
    LET t == shlex_split(command)
        errors == (IF t.raised THEN <<ShellSyntaxError(ValueErrorMessage[t.exc])>> ELSE <<>>)
                  \o (IF Count(command, "\"") % 2 # 0 THEN <<UnmatchedDouble>> ELSE <<>>)
                  \o (IF Count(command, "'") % 2 # 0 THEN <<UnmatchedSingle>> ELSE <<>>)
                  \o (IF /\ Contains(command, <<"r","m">>)
                         /\ Contains(command, <<"-","r","f">>)
                         /\ (Contains(command, <<"*">>) \/ Contains(command, <<"/">>))
                      THEN <<DangerousRm>> ELSE <<>>)
    IN IF t.raised /\ t.exc \notin DOMAIN ValueErrorMessage THEN Raise(t.exc)
       ELSE Value(<<Len(errors) = 0, errors>>)

Min(a, b) == IF a <= b THEN a ELSE b

\* faulty variant: the score is returned without the cap
_calculate_complexity_uncapped(parsed_command) ==
    LET s1 == 0 + Min(Len(parsed_command.arguments), 3)
        s2 == s1 + Min(Len(parsed_command.flags), 3)
        s3 == s2 + (IF parsed_command.pipes # <<>> THEN 2 ELSE 0)
        s4 == s3 + (IF parsed_command.redirections # <<>> THEN 1 ELSE 0)
        s5 == s4 + (IF parsed_command.uses_sudo THEN 1 ELSE 0)
        s6 == s5 + (IF parsed_command.file_operations # <<>> THEN 1 ELSE 0)
        s7 == s6 + (IF parsed_command.network_operations # <<>> THEN 2 ELSE 0)
        score == s7 + (IF parsed_command.system_operations # <<>> THEN 2 ELSE 0)
    IN score

\* _calculate_complexity: score after each of its statements
_calculate_complexity(parsed_command) ==
    LET s1 == 0 + Min(Len(parsed_command.arguments), 3)
        s2 == s1 + Min(Len(parsed_command.flags), 3)
        s3 == s2 + (IF parsed_command.pipes # <<>> THEN 2 ELSE 0)
        s4 == s3 + (IF parsed_command.redirections # <<>> THEN 1 ELSE 0)
        s5 == s4 + (IF parsed_command.uses_sudo THEN 1 ELSE 0)
        s6 == s5 + (IF parsed_command.file_operations # <<>> THEN 1 ELSE 0)
        s7 == s6 + (IF parsed_command.network_operations # <<>> THEN 2 ELSE 0)
        score == s7 + (IF parsed_command.system_operations # <<>> THEN 2 ELSE 0)
    IN Min(score, 10)

\* get_command_info: the dict it returns
get_command_info(parsed_command) ==
    [base_command |-> parsed_command.base_command,
     argument_count |-> Len(parsed_command.arguments),
     flag_count |-> Len(parsed_command.flags),
     has_pipes |-> Len(parsed_command.pipes) > 0,
     has_redirections |-> Len(parsed_command.redirections) > 0,
     uses_sudo |-> parsed_command.uses_sudo,
     runs_background |-> parsed_command.background,
     file_operations |-> parsed_command.file_operations,
     network_operations |-> parsed_command.network_operations,
     system_operations |-> parsed_command.system_operations,
     complexity_score |-> _calculate_complexity(parsed_command)]

(***************************************************************************)
(* SafetyLevel (ai_engine.py)                                              *)
(***************************************************************************)
SafetyLevel == {"LOW", "MEDIUM", "HIGH"}

(***************************************************************************)
(* SafetyChecker (safety.py)                                               *)
(***************************************************************************)
ForkBomb == <<":","(",")","{"," ",":","|",":","&"," ","}",";",":">>

\* the set literal BLOCKED_COMMANDS, in source order
BLOCKED_COMMANDS ==
    << <<"r","m"," ","-","r","f"," ","/">>,
       <<"m","k","f","s">>,
       <<"f","o","r","m","a","t">>,
       <<"f","d","i","s","k"," ","/","d","e","v","/">>,
       <<"d","d"," ","i","f","=">>,
       ForkBomb >>

\* the set literal HIGH_RISK_PATTERNS, in source order:
\* rm\s+-rf, chmod\s+777, >\s*/dev/, sudo\s+su
HIGH_RISK_PATTERNS ==
    << <<"r","m","\\","s","+","-","r","f">>,
       <<"c","h","m","o","d","\\","s","+","7","7","7">>,
       <<">","\\","s","*","/","d","e","v","/">>,
       <<"s","u","d","o","\\","s","+","s","u">> >>

\* f"Blocked dangerous command: {blocked}"
BlockedWarning(blocked) ==
    <<"B","l","o","c","k","e","d"," ","d","a","n","g","e","r","o","u","s"," ",
      "c","o","m","m","a","n","d",":"," ">> \o blocked

SudoWarning ==
    <<"C","o","m","m","a","n","d"," ","r","e","q","u","i","r","e","s"," ",
      "s","u","d","o"," ","p","r","i","v","i","l","e","g","e","s">>

FileWarning ==
    <<"C","o","m","m","a","n","d"," ","p","e","r","f","o","r","m","s"," ",
      "f","i","l","e"," ","o","p","e","r","a","t","i","o","n","s">>

NetworkWarning ==
    <<"C","o","m","m","a","n","d"," ","p","e","r","f","o","r","m","s"," ",
      "n","e","t","w","o","r","k"," ","o","p","e","r","a","t","i","o","n","s">>

\* the locals of check_command before its first rule
InitLocals ==
    [warnings |-> <<>>, allow_execution |-> TRUE, sandbox |-> FALSE,
     requires_confirmation |-> FALSE]

\* faulty variant: the loop stops at the first blocked substring it finds
RECURSIVE BlockedLoopBreak(_, _, _)
BlockedLoopBreak(order, raw, acc) ==
    IF order = <<>> THEN acc
    ELSE IF Contains(raw, Head(order))
         THEN [acc EXCEPT !.warnings = Append(@, BlockedWarning(Head(order))),
                          !.allow_execution = FALSE]
         ELSE BlockedLoopBreak(Tail(order), raw, acc)

\* faulty variant: the loop denies execution without recording which substring matched
RECURSIVE BlockedLoopSilent(_, _, _)
BlockedLoopSilent(order, raw, acc) ==
    IF order = <<>> THEN acc
    ELSE BlockedLoopSilent(Tail(order), raw,
                           IF Contains(raw, Head(order))
                           THEN [acc EXCEPT !.allow_execution = FALSE]
                           ELSE acc)

\* the loop `for blocked in self.BLOCKED_COMMANDS`, over the set in iteration
\* order, on the locals of check_command
RECURSIVE BlockedLoop(_, _, _)
BlockedLoop(order, raw, acc) ==
    IF order = <<>> THEN acc
    ELSE BlockedLoop(Tail(order), raw,
                     IF Contains(raw, Head(order))
                     THEN [acc EXCEPT !.warnings = Append(@, BlockedWarning(Head(order))),
                                      !.allow_execution = FALSE]
                     ELSE acc)

\* faulty variant: sudo is reported but does not force the confirmation
SudoRuleNoConfirm(parsed_command, acc) ==
    IF parsed_command.uses_sudo
    THEN [acc EXCEPT !.warnings = Append(@, SudoWarning)]
    ELSE acc

\* `if parsed_command.uses_sudo:`
SudoRule(parsed_command, acc) ==
    IF parsed_command.uses_sudo
    THEN [acc EXCEPT !.warnings = Append(@, SudoWarning),
                     !.requires_confirmation = TRUE]
    ELSE acc

\* faulty variant: file operations ask for the sandbox too
FileRuleSandbox(parsed_command, acc) ==
    IF parsed_command.file_operations # <<>>
    THEN [acc EXCEPT !.warnings = Append(@, FileWarning), !.sandbox = TRUE]
    ELSE acc

\* `if parsed_command.file_operations:`
FileRule(parsed_command, acc) ==
    IF parsed_command.file_operations # <<>>
    THEN [acc EXCEPT !.warnings = Append(@, FileWarning)]
    ELSE acc

\* `if parsed_command.network_operations:`
NetworkRule(parsed_command, acc) ==
    IF parsed_command.network_operations # <<>>
    THEN [acc EXCEPT !.warnings = Append(@, NetworkWarning), !.sandbox = TRUE]
    ELSE acc

\* faulty variant: a HIGH risk level asks for the sandbox
MakeResultHighSandbox(acc, ai_safety_level) ==
    [allow_execution |-> acc.allow_execution,
     risk_level |-> ai_safety_level,
     warnings |-> acc.warnings,
     sandbox |-> acc.sandbox \/ ai_safety_level = "HIGH",
     requires_confirmation |-> acc.requires_confirmation \/ ai_safety_level # "LOW"]

\* faulty variant: the comparison with SafetyLevel.LOW is inverted
MakeResultInverted(acc, ai_safety_level) ==
    [allow_execution |-> acc.allow_execution,
     risk_level |-> ai_safety_level,
     warnings |-> acc.warnings,
     sandbox |-> acc.sandbox,
     requires_confirmation |-> acc.requires_confirmation \/ ai_safety_level = "LOW"]

\* `return SafetyResult(...)`
MakeResult(acc, ai_safety_level) ==
    [allow_execution |-> acc.allow_execution,
     risk_level |-> ai_safety_level,
     warnings |-> acc.warnings,
     sandbox |-> acc.sandbox,
     requires_confirmation |-> acc.requires_confirmation \/ ai_safety_level # "LOW"]

\* faulty variant: the high-risk pattern table is consulted and gates execution
check_command_high_risk(parsed_command, ai_safety_level, seed) ==
    LET acc == NetworkRule(parsed_command,
                 FileRule(parsed_command,
                   SudoRule(parsed_command,
                     BlockedLoop(IterOrder(BLOCKED_COMMANDS, seed),
                                 parsed_command.raw_command, InitLocals))))
        risky == \E i \in DOMAIN HIGH_RISK_PATTERNS :
                    Search(HIGH_RISK_PATTERNS[i], parsed_command.raw_command)
    IN MakeResult([acc EXCEPT !.allow_execution = @ /\ ~risky], ai_safety_level)

\* faulty variant: the network rule is evaluated before the file rule
check_command_reordered(parsed_command, ai_safety_level, seed) ==
    MakeResult(
        FileRule(parsed_command,
          NetworkRule(parsed_command,
            SudoRule(parsed_command,
              BlockedLoop(IterOrder(BLOCKED_COMMANDS, seed),
                          parsed_command.raw_command, InitLocals)))),
        ai_safety_level)

\* check_command(parsed_command, ai_safety_level) in a process whose set
\* iteration order is the one of seed
check_command(parsed_command, ai_safety_level, seed) ==
    MakeResult(
        NetworkRule(parsed_command,
          FileRule(parsed_command,
            SudoRule(parsed_command,
              BlockedLoop(IterOrder(BLOCKED_COMMANDS, seed),
                          parsed_command.raw_command, InitLocals)))),
        ai_safety_level)

(***************************************************************************)
(* HistoryManager (utils/history.py)                                       *)
(***************************************************************************)
\* `if len(self.history) > 1000: self.history = self.history[-1000:]`
HistoryLimit == 1000

\* the entry add_entry builds, without its timestamp and the texts it
\* copies from the CommandResult
Entry(query, cr, execution_result) ==
    [query |-> query, command |-> cr.command, success |-> execution_result.success]

\* seq[-n:]
LastN(seq, n) == IF Len(seq) <= n THEN seq ELSE SubSeq(seq, Len(seq) - n + 1, Len(seq))

\* faulty variant: keeps the first 1000 entries, seq[:1000]
add_entry_keeps_oldest(self_history, query, cr, execution_result) ==
    LET appended == Append(self_history, Entry(query, cr, execution_result))
        kept == IF Len(appended) > HistoryLimit
                THEN SubSeq(appended, 1, HistoryLimit) ELSE appended
    IN [history |-> kept, history_file |-> kept]

\* add_entry: self.history and the file after the call
add_entry(self_history, query, cr, execution_result) ==
    LET appended == Append(self_history, Entry(query, cr, execution_result))
        kept == IF Len(appended) > HistoryLimit
                THEN LastN(appended, HistoryLimit) ELSE appended
    IN [history |-> kept, history_file |-> kept]

(***************************************************************************)
(* AIEngine (core/ai_engine.py)                                            *)
(***************************************************************************)
\* the keys of self.providers in the order _initialize_providers registers
\* them, and the key of the fallback
ProviderNames == <<"gemini", "openai", "anthropic", "local">>
Fallback == "fallback"

\* the elements of seq that are in S, in the order of seq
RECURSIVE Keep(_, _)
Keep(seq, S) ==
    IF seq = <<>> THEN <<>>
    ELSE (IF Head(seq) \in S THEN <<Head(seq)>> ELSE <<>>) \o Keep(Tail(seq), S)

\* _initialize_providers: available are the providers whose class was
\* imported and whose constructor did not raise; the keys of the dict it
\* returns, in insertion order
_initialize_providers(available) ==
    LET providers == Keep(ProviderNames, available)
    IN IF providers = <<>> THEN <<Fallback>> ELSE providers

\* faulty variant: the providers in registration order, whatever the
\* configuration prefers
provider_order_as_registered(preferred_provider, providers) == providers

\* provider_order of generate_command
provider_order(preferred_provider, providers) ==
    <<preferred_provider>> \o Keep(providers, Range(providers) \ {preferred_provider})

\* a response text: "empty" is '', "prose" has no '{' or no '}', "malformed"
\* has text between braces that json.loads rejects, "object" has the JSON
\* object data between its outermost braces
Text(kind, data) == [kind |-> kind, data |-> data]

\* data.get(key, default)
Get(data, key, default) == IF key \in DOMAIN data THEN data[key] ELSE default

\* SafetyLevel(value): the member with that value, ValueError if none
SafetyLevelOf(value) ==
    IF value = <<"l","o","w">> THEN Value("LOW")
    ELSE IF value = <<"m","e","d","i","u","m">> THEN Value("MEDIUM")
    ELSE IF value = <<"h","i","g","h">> THEN Value("HIGH")
    ELSE Raise("ValueError")

\* float(text) for a text of digits with at most one '.', ValueError for a
\* text with another character
Float(text) ==
    IF /\ \E i \in DOMAIN text : text[i] \in Digits
       /\ \A i \in DOMAIN text : text[i] \in Digits \cup {"."}
       /\ Count(text, ".") <= 1
    THEN Value(text) ELSE Raise("ValueError")

\* _parse_response of a non-empty response: the CommandResult (its command,
\* safety_level and provider_used), or None
_parse_response(response, provider_name) ==
    IF response.kind # "object" THEN None
    ELSE LET data == response.data
             level == SafetyLevelOf([i \in DOMAIN Get(data, "safety_level", <<"m","e","d","i","u","m">>) |->
                                        ToLower(Get(data, "safety_level", <<"m","e","d","i","u","m">>)[i])])
             confidence == Float(Get(data, "confidence", <<"0",".","7">>))
         IN IF level.raised \/ confidence.raised THEN None
            ELSE [command |-> Get(data, "command", <<>>),
                  safety_level |-> level.value,
                  provider_used |-> provider_name]

(***************************************************************************)
(* The inputs the model draws                                              *)
(***************************************************************************)
\* fragments of the raw_command texts handed to check_command: the pieces
\* of the blocked substrings, of the high-risk patterns and of near misses
SafetyFragments ==
    { <<"r","m"," ","-","r","f"," ">>, <<"/">>, <<"m","k","f","s">>,
      <<"f","o","r","m","a","t">>, <<"f","d","i","s","k"," ">>,
      <<"/","d","e","v","/">>, <<"d","d"," ">>, <<"i","f","=">>, ForkBomb,
      <<"c","h","m","o","d"," ","7","7","7">>, <<"s","u","d","o"," ","s","u">>,
      <<">">> }

RawCommands == Concats(SafetyFragments, MaxFrags)

\* the ParsedCommand values handed to check_command: every combination of
\* the fields it reads (the other fields are left empty)
ParsedInputs ==
    { [raw_command |-> raw, base_command |-> <<>>, arguments |-> <<>>, flags |-> <<>>,
       redirections |-> <<>>, pipes |-> <<>>, environment_vars |-> <<>>,
       background |-> FALSE, uses_sudo |-> sudo, file_operations |-> fops,
       network_operations |-> nops, system_operations |-> <<>>] :
      raw \in RawCommands, sudo \in BOOLEAN,
      fops \in {<<>>, << <<"r","m">> >>}, nops \in {<<>>, << <<"c","u","r","l">> >>} }

\* fragments of the command texts handed to parse
ParseFragments ==
    { <<" ">>, <<"'">>, <<"\"">>, <<"|">>, <<">">>, <<"<">>, <<"&">>, Sudo,
      <<"l","s">>, <<"-","l">>, <<"r","m"," ">>, <<"a","=","1">> }

ParseCommands == Concats(ParseFragments, MaxParseFrags)

\* the commands the AI engine returns to process_query: plain, with sudo,
\* blocked, with a network operation, in the background, one that parse
\* cannot tokenize, and a sudo command with a quoted '|'
QueryCommands ==
    { <<"l","s">>,
      <<"s","u","d","o"," ","l","s">>,
      <<"m","k","f","s"," ","x">>,
      <<"s","u","d","o"," ","r","m"," ","-","r","f"," ","/"," ","&">>,
      <<"c","u","r","l"," ","x"," ","|"," ","l","s">>,
      <<"l","s"," ","'","x">>,
      <<"s","u","d","o"," ","e","c","h","o"," ","'","a","|","b","'">> }

\* fragments of the generated commands that go through parse and then
\* check_command: blocked substrings next to what parse normalises (outer
\* whitespace, the sudo prefix, the background marker) and to what makes it
\* fail (a quote)
PipelineFragments ==
    { Sudo, <<" ">>, <<" ","&">>, <<"'">>, <<"r","m"," ","-","r","f"," ","/">>,
      <<"m","k","f","s">>, ForkBomb, <<"c","p"," ">>, <<"l","s">> }

PipelineCommands == Concats(PipelineFragments, MaxPipeFrags)

\* fragments of the command texts handed to is_destructive: the parts of
\* the destructive patterns, in either case, and near misses
DestructiveFragments ==
    { <<"r","m"," ">>, <<"-","R","F"," ">>, <<"/">>, <<"d","d"," ">>,
      <<"o","f","=","/","d","e","v","/">>, <<"M","k","F","s">>,
      <<"f","o","r","m","a","t">>, <<" ">>, <<":","(",")","{"," ","}">> }

\* those concatenations, and one command for each of the other patterns
DestructiveCommands ==
    Concats(DestructiveFragments, MaxToolFrags)
    \cup { <<"m","k","f","s",".","e","x","t","4"," ","/","d","e","v","/","s","d","a","1">>,
           <<"f","d","i","s","k"," ","-","l">>,
           <<"C","H","M","O","D"," "," ","7","7","7"," ","x">>,
           <<"c","h","o","w","n"," ","r","o","o","t",":"," ","/">> }

\* fragments of the command texts handed to validate_syntax
ValidateFragments ==
    { <<"'">>, <<"\"">>, <<"\\">>, <<" ">>, <<"r","m">>, <<"-","r","f">>, <<"*">>,
      <<"/">> }

ValidateCommands ==
    Concats(ValidateFragments, MaxToolFrags) \cup { <<"e","c","h","o"," ","\"","u","n","t","e","r","m","i","n","a","t","e","d">> }

\* the lists of at most n words
RECURSIVE Words(_)
Words(n) == IF n = 0 THEN {<<>>} ELSE LET W == Words(n - 1) IN W \cup {Append(w, <<"x">>) : w \in W}

\* the ParsedCommand values handed to get_command_info: every combination of
\* what _calculate_complexity reads
InfoInputs ==
    { [raw_command |-> <<"x">>, base_command |-> <<"x">>, arguments |-> args, flags |-> flags,
       redirections |-> redir, pipes |-> pipes, environment_vars |-> <<>>,
       background |-> FALSE, uses_sudo |-> sudo, file_operations |-> fops,
       network_operations |-> nops, system_operations |-> sops] :
      args \in Words(MaxWords), flags \in Words(MaxWords),
      redir \in {<<>>, << << <<">">>, <<"x">> >> >>}, pipes \in {<<>>, << <<"x">> >>},
      sudo \in BOOLEAN, fops \in {<<>>, << <<"r","m">> >>},
      nops \in {<<>>, << <<"c","u","r","l">> >>}, sops \in {<<>>, << <<"m","o","u","n","t">> >>} }

\* the ParsedCommand objects the threads share as arguments of
\* check_command: one that every rule of check_command acts on
ThreadParsed ==
    << [raw_command |-> <<"r","m"," ","-","r","f"," ","/"," ","m","k","f","s">>,
        base_command |-> <<"r","m">>, arguments |-> <<>>, flags |-> <<>>,
        redirections |-> <<>>, pipes |-> <<>>, environment_vars |-> <<>>,
        background |-> FALSE, uses_sudo |-> TRUE, file_operations |-> << <<"r","m">> >>,
        network_operations |-> << <<"c","u","r","l">> >>, system_operations |-> <<>>] >>

\* the identity of the i-th of these objects: an identity is a pair, the
\* thread whose call built the object (0: built before any call) and a
\* number
InputId(i) == <<0, i>>

\* the (object, risk level) pairs the threads call check_command with
ThreadChecks == {<<InputId(1), "LOW">>}

\* the commands the threads call parse with: one that parses, one that
\* cannot be tokenized
ThreadCommands == { <<"s","u","d","o"," ","r","m"," ","x"," ","&">>, <<"l","s"," ","'">> }

\* fragments of the command texts handed to parse to look at the fields of
\* its result: operators, a quote, an assignment, a file operation, the
\* sudo prefix and the background marker
FieldsFragments ==
    { <<" ">>, <<"|">>, <<">">>, <<"<">>, <<"'">>, <<"a","=","1">>,
      <<"r","m"," ">>, Sudo, <<" ","&">> }

\* those concatenations, and longer commands with flags, several operators,
\* assignments and operations of the three categories
FieldsCommands ==
    Concats(FieldsFragments, MaxFieldsFrags)
    \cup { <<"s","u","d","o"," ","r","m"," ","-","r","f"," ","/","t","m","p","/","x">>,
           <<"c","u","r","l"," ","h","t","t","p",":","/","/","x"," ","|"," ","g","r","e","p"," ","y"," ",">"," ","o","u","t",".","t","x","t">>,
           <<"e","c","h","o"," ","a"," ",">",">"," ","o","u","t",".","t","x","t">>,
           <<"c","m","d"," ","<"," ","i","n"," ",">"," ","o","u","t">>,
           <<"d","d"," ","i","f","=","/","d","e","v","/","z","e","r","o"," ","o","f","=","x">>,
           <<"A","=","1"," ","A","=","2"," ","l","s">>,
           <<"l","s"," ","|"," ","g","r","e","p"," ","'","a","|","b","'">>,
           <<"l","s"," ","2",">"," ","e">>,
           <<"c","p"," ","a"," ","b"," ","|"," ","c","u","r","l"," ","c"," ","|"," ","m","o","u","n","t"," ","d">> }

\* the lists that HistoryManager finds in its file: none, a short one, and
\* lists of about the length add_entry cuts at.  The i-th stored entry is
\* named by the query -i (the queries of the calls are named from 1 on).
LoadedLengths == {0, 1, HistoryLimit - 1, HistoryLimit, HistoryLimit + 1, HistoryLimit + 2}

Stored(n) == [i \in 1..n |-> [query |-> 0 - i, command |-> <<"l","s">>, success |-> TRUE]]

\* the queries add_entry is called with
HistoryQueries == {1, 2}

\* what the configuration names as provider: a registered key or another
\* name
PreferredProviders == Range(ProviderNames) \cup {"gpt4"}

\* what provider.generate_response gives: an exception, None, or a text
ProviderOutcomes ==
    { Raise("Exception"), Value(None), Value(Text("empty", <<>>)), Value(Text("prose", <<>>)),
      Value(Text("malformed", <<>>)),
      Value(Text("object", [command |-> <<"l","s">>, safety_level |-> <<"L","O","W">>,
                            confidence |-> <<"0",".","9">>])),
      Value(Text("object", [command |-> <<"l","s">>])),
      Value(Text("object", [command |-> <<"l","s">>, safety_level |-> <<"C","R","I","T","I","C","A","L">>])),
      Value(Text("object", [command |-> <<"l","s">>, safety_level |-> <<"h","i","g","h">>,
                            confidence |-> <<"h","i","g","h">>])) }

Threads == 1..NThreads

(***************************************************************************)
(* State                                                                   *)
(***************************************************************************)
VARIABLES
    hashSeed,         \* the process's set iteration order (fixed at start-up)
    call,             \* the call of the core's interface in progress, with its arguments
    result,           \* what that call returned
    pc,               \* where the running process_query stands ("idle": none runs)
    interactive,      \* process_query's argument
    command_result,   \* the CommandResult of the AI engine (None: generation failed)
    parsed_command,   \* process_query's local
    safety_result,    \* process_query's local
    answer,           \* the user's answer to the confirmation prompt ("none": not asked)
    ui,               \* what the terminal UI has shown in this run, in order
    executed,         \* the calls of CommandExecutor.execute in this run
    history,          \* HistoryManager.history
    history_file,     \* the list that ~/.bgpt/history.json holds
    returned,         \* the value process_query returned ("pending": not yet)
    nqueries,         \* the number of process_query calls so far
    tables,           \* the pattern tables (class attributes), each in iteration order
    heap,             \* the live mutable objects (lists, dicts, ParsedCommands), by identity
    frames,           \* per thread: the frame of the call it is in, with its locals
    logged            \* the error records handed to the module's logger

coreVars == <<call, result>>
queryVars == <<pc, interactive, command_result, parsed_command, safety_result, answer,
               ui, executed, history, history_file, returned, nqueries>>
threadVars == <<tables, heap, frames, logged>>
vars == <<hashSeed, coreVars, queryVars, threadVars>>

Idle == [op |-> "none"]

\* the pattern tables as a process with the iteration order of seed holds
\* them: each set object as the sequence of its elements in iteration
\* order, an element (an immutable str) being named by its position in the
\* set literal
Positions(literal) == [i \in DOMAIN literal |-> i]

Tables(seed) ==
    [BLOCKED_COMMANDS |-> IterOrder(Positions(BLOCKED_COMMANDS), seed),
     FILE_PATTERNS |-> IterOrder(Positions(FILE_PATTERNS), seed),
     NETWORK_PATTERNS |-> IterOrder(Positions(NETWORK_PATTERNS), seed),
     SYSTEM_PATTERNS |-> IterOrder(Positions(SYSTEM_PATTERNS), seed)]

\* the elements of a set object of the tables, in iteration order
Elements(literal, object) == [i \in DOMAIN object |-> literal[object[i]]]

\* an entry of the terminal's output
Shown(kind, text) == [kind |-> kind, text |-> text]

Init ==
    /\ hashSeed \in 0..(NSeeds - 1)
    /\ call = Idle
    /\ result = Idle
    /\ pc = "idle"
    /\ interactive = FALSE
    /\ command_result = None
    /\ parsed_command = None
    /\ safety_result = None
    /\ answer = "none"
    /\ ui = <<>>
    /\ executed = <<>>
    /\ history = <<>>
    /\ history_file = <<>>
    /\ returned = "pending"
    /\ nqueries = 0
    /\ tables = Tables(hashSeed)
    /\ heap = [id \in {InputId(i) : i \in DOMAIN ThreadParsed} |-> ThreadParsed[id[2]]]
    /\ frames = [t \in Threads |-> Idle]
    /\ logged = {}

(***************************************************************************)
(* Calls of the core's interface                                           *)
(***************************************************************************)
\* a caller invokes SafetyChecker.check_command
CheckCommand ==
    /\ call = Idle /\ pc = "idle"
    /\ \E parsed \in ParsedInputs, level \in SafetyLevel :
         /\ call' = [op |-> "check_command", parsed_command |-> parsed,
                     ai_safety_level |-> level]
         /\ result' = check_command(parsed, level, hashSeed)
    /\ UNCHANGED <<hashSeed, threadVars, queryVars>>

\* a caller invokes CommandParser.parse
Parse ==
    /\ call = Idle /\ pc = "idle"
    /\ \E command \in ParseCommands :
         /\ call' = [op |-> "parse", command |-> command]
         /\ result' = parse(command, hashSeed)
    /\ UNCHANGED <<hashSeed, threadVars, queryVars>>

\* a caller hands a generated command to CommandParser.parse, as
\* process_query does with command_result.command
ParseGenerated ==
    /\ call = Idle /\ pc = "idle"
    /\ \E command \in PipelineCommands :
         /\ call' = [op |-> "parse", command |-> command]
         /\ result' = parse(command, hashSeed)
    /\ UNCHANGED <<hashSeed, threadVars, queryVars>>

\* the caller hands the ParsedCommand that parse returned to
\* SafetyChecker.check_command, with the risk level of the generated command
CheckParsed ==
    /\ call.op = "parse" /\ ~result.raised
    /\ \E level \in SafetyLevel :
         /\ call' = [op |-> "check_command", command |-> call.command,
                     parsed_command |-> result.value, ai_safety_level |-> level]
         /\ result' = check_command(result.value, level, hashSeed)
    /\ UNCHANGED <<hashSeed, threadVars, queryVars>>

\* a caller invokes CommandParser.is_destructive
IsDestructive ==
    /\ call = Idle /\ pc = "idle"
    /\ \E command \in DestructiveCommands :
         /\ call' = [op |-> "is_destructive", command |-> command]
         /\ result' = Value(is_destructive(command))
    /\ UNCHANGED <<hashSeed, threadVars, queryVars>>

\* a caller invokes CommandParser.validate_syntax
ValidateSyntax ==
    /\ call = Idle /\ pc = "idle"
    /\ \E command \in ValidateCommands :
         /\ call' = [op |-> "validate_syntax", command |-> command]
         /\ result' = validate_syntax(command)
    /\ UNCHANGED <<hashSeed, threadVars, queryVars>>

\* a caller invokes CommandParser.get_command_info
GetCommandInfo ==
    /\ call = Idle /\ pc = "idle"
    /\ \E parsed \in InfoInputs :
         /\ call' = [op |-> "get_command_info", parsed_command |-> parsed]
         /\ result' = Value(get_command_info(parsed))
    /\ UNCHANGED <<hashSeed, threadVars, queryVars>>

\* a caller invokes CommandParser.parse and reads the fields of the result
ParseStructured ==
    /\ call = Idle /\ pc = "idle"
    /\ \E command \in FieldsCommands :
         /\ call' = [op |-> "parse", command |-> command]
         /\ result' = parse(command, hashSeed)
    /\ UNCHANGED <<hashSeed, threadVars, queryVars>>

\* HistoryManager.__init__: self.history is what _load_history reads from
\* the file (a missing or unreadable file gives [])
LoadHistory ==
    /\ call = Idle /\ pc = "idle"
    /\ \E n \in LoadedLengths :
         /\ history_file' = Stored(n)
         /\ history' = Stored(n)
    /\ UNCHANGED <<hashSeed, threadVars, coreVars, pc, interactive, command_result,
                   parsed_command, safety_result, answer, ui, executed, returned, nqueries>>

\* a caller invokes HistoryManager.add_entry; the call keeps the list that
\* self.history held when it began
AddEntry ==
    /\ call = Idle /\ pc = "idle"
    /\ Cardinality({i \in DOMAIN history : history[i].query > 0}) < MaxAdds
    /\ \E query \in HistoryQueries, success \in BOOLEAN :
         LET cr == [command |-> <<"l","s">>]
             saved == add_entry(history, query, cr, [success |-> success])
         IN /\ call' = [op |-> "add_entry", query |-> query, command_result |-> cr,
                        execution_result |-> [success |-> success],
                        self_history |-> history]
            /\ result' = Value(None)
            /\ history' = saved.history
            /\ history_file' = saved.history_file
    /\ UNCHANGED <<hashSeed, threadVars, pc, interactive, command_result,
                   parsed_command, safety_result, answer, ui, executed, returned, nqueries>>

\* generate_command is called on an engine whose providers are those of
\* available: the prompt, the preferred provider, provider_order
CallGenerateCommand ==
    /\ call = Idle /\ pc = "idle"
    /\ \E available \in SUBSET Range(ProviderNames), preferred \in PreferredProviders :
         LET providers == _initialize_providers(available)
         IN call' = [op |-> "generate_command", self_providers |-> providers,
                     preferred_provider |-> preferred,
                     provider_order |-> provider_order(preferred, providers),
                     next |-> 1, tried |-> <<>>, response |-> None]
    /\ UNCHANGED <<hashSeed, threadVars, queryVars, result>>

\* one iteration of `for provider_name in provider_order`: the name is
\* skipped when it is no key of self.providers; else the provider is
\* awaited, and its response parsed when it is not empty.  tried lists the
\* providers of the "Trying provider" log records, with what came of each.
TryProvider ==
    /\ call.op = "generate_command" /\ result = Idle
    /\ call.next <= Len(call.provider_order)
    /\ LET provider_name == call.provider_order[call.next]
       IN IF provider_name \notin Range(call.self_providers)
          THEN /\ call' = [call EXCEPT !.next = @ + 1]
               /\ result' = result
          ELSE \E response \in ProviderOutcomes :
                 LET parsed == IF response.raised \/ response.value = None
                                  \/ response.value.kind = "empty"
                               THEN None
                               ELSE _parse_response(response.value, provider_name)
                 IN IF parsed # None
                    THEN /\ call' = [call EXCEPT
                                        !.tried = Append(@, [provider |-> provider_name,
                                                             outcome |-> "returned"]),
                                        !.response = response]
                         /\ result' = Value(parsed)
                    ELSE /\ call' = [call EXCEPT
                                        !.next = @ + 1,
                                        !.tried = Append(@, [provider |-> provider_name,
                                                             outcome |-> "failed"]),
                                        !.response = response]
                         /\ result' = result
    /\ UNCHANGED <<hashSeed, threadVars, queryVars>>

\* the loop is over: "All providers failed", `return None`
AllProvidersFailed ==
    /\ call.op = "generate_command" /\ result = Idle
    /\ call.next > Len(call.provider_order)
    /\ result' = Value(None)
    /\ UNCHANGED <<hashSeed, threadVars, queryVars, call>>

\* the caller takes the result
Return ==
    /\ call # Idle /\ result # Idle
    /\ call' = Idle
    /\ result' = Idle
    /\ UNCHANGED <<hashSeed, threadVars, queryVars>>

(***************************************************************************)
(* Bgpt.process_query (main.py), one action per stretch of code between    *)
(* two points where it waits (for the AI engine, the user, the subprocess) *)
(***************************************************************************)
\* process_query(query, interactive) is called: show_thinking, then the
\* call of ai_engine.generate_command
StartQuery ==
    /\ pc = "idle" /\ call = Idle
    /\ nqueries < MaxQueries
    /\ nqueries' = nqueries + 1
    /\ interactive' \in BOOLEAN
    /\ pc' = "generate"
    /\ command_result' = None
    /\ parsed_command' = None
    /\ safety_result' = None
    /\ answer' = "none"
    /\ ui' = <<Shown("thinking", <<>>)>>
    /\ executed' = <<>>
    /\ returned' = "pending"
    /\ UNCHANGED <<hashSeed, threadVars, coreVars, history, history_file>>

\* generate_command returned None: `if not command_result`
GenerateFails ==
    /\ pc = "generate"
    /\ ui' = Append(ui, Shown("error: Failed to generate command", <<>>))
    /\ returned' = "False"
    /\ pc' = "done"
    /\ UNCHANGED <<hashSeed, threadVars, coreVars, interactive, command_result, parsed_command,
                   safety_result, answer, executed, history, history_file, nqueries>>

\* display_command_result: the command panel, the explanation, the warnings
DisplayCommandResult(cr, sr) ==
    <<Shown("command", cr.command), Shown("explanation", <<>>)>>
    \o [i \in DOMAIN sr.warnings |-> Shown("warning", sr.warnings[i])]

\* generate_command returned a CommandResult: parse, check_command and
\* display_command_result
Generate ==
    /\ pc = "generate"
    /\ \E command \in QueryCommands, level \in SafetyLevel :
         LET cr == [command |-> command, safety_level |-> level]
             p == parse(command, hashSeed)
             sr == check_command(p.value, level, hashSeed)
         IN /\ command_result' = cr
            /\ IF p.raised
               THEN \* `except Exception`
                    /\ parsed_command' = None
                    /\ safety_result' = None
                    /\ ui' = Append(ui, Shown("error", <<>>))
                    /\ returned' = "False"
                    /\ pc' = "done"
               ELSE /\ parsed_command' = p.value
                    /\ safety_result' = sr
                    /\ ui' = ui \o DisplayCommandResult(cr, sr)
                    /\ returned' = returned
                    /\ pc' = "confirm"
    /\ UNCHANGED <<hashSeed, threadVars, coreVars, interactive, answer, executed, history, history_file, nqueries>>

\* `if interactive and not self.ui.confirm_execution(...)`: confirm_execution
\* asks only when requires_confirmation
Confirm ==
    /\ pc = "confirm"
    /\ IF interactive /\ safety_result.requires_confirmation
       THEN /\ ui' = Append(ui, Shown("prompt: Execute this command?", <<>>))
            /\ pc' = "asking"
       ELSE /\ ui' = ui
            /\ pc' = "execute"
    /\ UNCHANGED <<hashSeed, threadVars, coreVars, interactive, command_result, parsed_command,
                   safety_result, answer, executed, history, history_file, returned, nqueries>>

\* the user answers the prompt
Answer ==
    /\ pc = "asking"
    /\ \E yes \in BOOLEAN :
         IF yes
         THEN /\ answer' = "yes"
              /\ pc' = "execute"
              /\ UNCHANGED <<ui, returned>>
         ELSE /\ answer' = "no"
              /\ ui' = Append(ui, Shown("info: Command execution cancelled", <<>>))
              /\ returned' = "False"
              /\ pc' = "done"
    /\ UNCHANGED <<hashSeed, threadVars, coreVars, interactive, command_result, parsed_command,
                   safety_result, executed, history, history_file, nqueries>>

\* faulty variant: the user's confirmation overrides the safety checker
ExecuteConfirmedOverrides ==
    /\ pc = "execute"
    /\ IF safety_result.allow_execution \/ answer = "yes"
       THEN /\ executed' = Append(executed, [command |-> parsed_command.raw_command,
                                             sandbox |-> safety_result.sandbox])
            /\ pc' = "executing"
            /\ UNCHANGED <<ui, returned>>
       ELSE /\ ui' = Append(ui, Shown("warning: Command blocked by safety checker", <<>>))
            /\ returned' = "False"
            /\ pc' = "done"
            /\ UNCHANGED executed
    /\ UNCHANGED <<hashSeed, threadVars, coreVars, interactive, command_result, parsed_command,
                   safety_result, answer, history, history_file, nqueries>>

\* faulty variant: the refusal of a blocked command is recorded in the history
ExecuteRecordsRefusal ==
    /\ pc = "execute"
    /\ IF safety_result.allow_execution
       THEN /\ executed' = Append(executed, [command |-> parsed_command.raw_command,
                                             sandbox |-> safety_result.sandbox])
            /\ pc' = "executing"
            /\ UNCHANGED <<ui, returned, history, history_file>>
       ELSE /\ ui' = Append(ui, Shown("warning: Command blocked by safety checker", <<>>))
            /\ returned' = "False"
            /\ pc' = "done"
            /\ LET saved == add_entry(history, nqueries, command_result, [success |-> FALSE])
               IN history' = saved.history /\ history_file' = saved.history_file
            /\ UNCHANGED executed
    /\ UNCHANGED <<hashSeed, threadVars, coreVars, interactive, command_result, parsed_command,
                   safety_result, answer, nqueries>>

\* `if safety_result.allow_execution:` the call of executor.execute, which
\* hands parsed_command.raw_command to the shell; else the refusal
Execute ==
    /\ pc = "execute"
    /\ IF safety_result.allow_execution
       THEN /\ executed' = Append(executed, [command |-> parsed_command.raw_command,
                                             sandbox |-> safety_result.sandbox])
            /\ pc' = "executing"
            /\ UNCHANGED <<ui, returned>>
       ELSE /\ ui' = Append(ui, Shown("warning: Command blocked by safety checker", <<>>))
            /\ returned' = "False"
            /\ pc' = "done"
            /\ UNCHANGED executed
    /\ UNCHANGED <<hashSeed, threadVars, coreVars, interactive, command_result, parsed_command,
                   safety_result, answer, history, history_file, nqueries>>

\* execute returned: display_execution_result, history_manager.add_entry,
\* `return execution_result.success`.  The query of the n-th call of
\* process_query is named by n.
ExecutionDone ==
    /\ pc = "executing"
    /\ \E success \in BOOLEAN :
         /\ ui' = Append(ui, Shown(IF success THEN "executed" ELSE "failed", <<>>))
         /\ LET saved == add_entry(history, nqueries, command_result, [success |-> success])
            IN history' = saved.history /\ history_file' = saved.history_file
         /\ returned' = IF success THEN "True" ELSE "False"
    /\ pc' = "done"
    /\ UNCHANGED <<hashSeed, threadVars, coreVars, interactive, command_result, parsed_command,
                   safety_result, answer, executed, nqueries>>

\* process_query has returned to its caller
EndQuery ==
    /\ pc = "done"
    /\ pc' = "idle"
    /\ UNCHANGED <<hashSeed, threadVars, coreVars, interactive, command_result, parsed_command,
                   safety_result, answer, ui, executed, history, history_file, returned, nqueries>>

(***************************************************************************)
(* Concurrent calls of parse and check_command on one CommandParser and    *)
(* one SafetyChecker: one action per stretch of a call between two points  *)
(* where the interpreter may switch threads.  A list or dict that a call   *)
(* builds is an object of the heap, known to the call by its identity.     *)
(***************************************************************************)
\* the identity of a new object that a call of thread t builds: one that no
\* live object has
NewId(h, t) ==
    <<t, CHOOSE k \in 1..(Cardinality(DOMAIN h) + 1) :
             <<t, k>> \notin DOMAIN h /\ \A j \in 1..(k - 1) : <<t, j>> \in DOMAIN h>>

\* the heap after thread t has built one new object for each value of vals,
\* and the identities of the new objects
RECURSIVE AllocAll(_, _, _)
AllocAll(h, t, vals) ==
    IF vals = <<>> THEN [heap |-> h, ids |-> <<>>]
    ELSE LET id == NewId(h, t)
             r == AllocAll((id :> Head(vals)) @@ h, t, Tail(vals))
         IN [heap |-> r.heap, ids |-> <<id>> \o r.ids]

\* the heap without the objects of S
Free(h, S) == [i \in DOMAIN h \ S |-> h[i]]

\* the locals of a check_command frame, with the list warnings by value
Locals(f) == [f.locals EXCEPT !.warnings = heap[@]]

\* faulty variant: warnings is a list the SafetyChecker keeps, not a local
CallCheckCommandSharedWarnings(t) ==
    /\ frames[t] = Idle
    /\ \E a \in ThreadChecks :
         /\ heap' = IF <<0, 0>> \in DOMAIN heap THEN heap ELSE (<<0, 0>> :> <<>>) @@ heap
         /\ frames' = [frames EXCEPT ![t] =
                         [op |-> "check_command", pc |-> "loop",
                          parsed_command |-> a[1], ai_safety_level |-> a[2],
                          locals |-> [warnings |-> <<0, 0>>, allow_execution |-> TRUE,
                                      sandbox |-> FALSE, requires_confirmation |-> FALSE],
                          i |-> 1, owned |-> {}]]
    /\ UNCHANGED <<hashSeed, coreVars, queryVars, tables, logged>>

\* a thread calls check_command(parsed_command, ai_safety_level): the four
\* assignments that initialise its locals; warnings is a new list
CallCheckCommand(t) ==
    /\ frames[t] = Idle
    /\ \E a \in ThreadChecks :
         LET new == AllocAll(heap, t, << InitLocals.warnings >>)
         IN /\ heap' = new.heap
            /\ frames' = [frames EXCEPT ![t] =
                            [op |-> "check_command", pc |-> "loop",
                             parsed_command |-> a[1], ai_safety_level |-> a[2],
                             locals |-> [InitLocals EXCEPT !.warnings = new.ids[1]],
                             i |-> 1, owned |-> {new.ids[1]}]]
    /\ UNCHANGED <<hashSeed, coreVars, queryVars, tables, logged>>

\* one iteration of `for blocked in self.BLOCKED_COMMANDS`
BlockedLoopStep(t) ==
    LET f == frames[t]
        acc == BlockedLoop(<<Elements(BLOCKED_COMMANDS, tables.BLOCKED_COMMANDS)[f.i]>>,
                           heap[f.parsed_command].raw_command, Locals(f))
    IN /\ f.op = "check_command" /\ f.pc = "loop"
       /\ heap' = [heap EXCEPT ![f.locals.warnings] = acc.warnings]
       /\ frames' = [frames EXCEPT ![t] =
                       [f EXCEPT !.locals = [acc EXCEPT !.warnings = f.locals.warnings],
                                 !.i = @ + 1,
                                 !.pc = IF f.i = Len(tables.BLOCKED_COMMANDS)
                                        THEN "sudo" ELSE "loop"]]
       /\ UNCHANGED <<hashSeed, coreVars, queryVars, tables, logged>>

\* `if parsed_command.uses_sudo:`
SudoRuleStep(t) ==
    LET f == frames[t]
        acc == SudoRule(heap[f.parsed_command], Locals(f))
    IN /\ f.op = "check_command" /\ f.pc = "sudo"
       /\ heap' = [heap EXCEPT ![f.locals.warnings] = acc.warnings]
       /\ frames' = [frames EXCEPT ![t] =
                       [f EXCEPT !.locals = [acc EXCEPT !.warnings = f.locals.warnings],
                                 !.pc = "file"]]
       /\ UNCHANGED <<hashSeed, coreVars, queryVars, tables, logged>>

\* `if parsed_command.file_operations:`
FileRuleStep(t) ==
    LET f == frames[t]
        acc == FileRule(heap[f.parsed_command], Locals(f))
    IN /\ f.op = "check_command" /\ f.pc = "file"
       /\ heap' = [heap EXCEPT ![f.locals.warnings] = acc.warnings]
       /\ frames' = [frames EXCEPT ![t] =
                       [f EXCEPT !.locals = [acc EXCEPT !.warnings = f.locals.warnings],
                                 !.pc = "network"]]
       /\ UNCHANGED <<hashSeed, coreVars, queryVars, tables, logged>>

\* `if parsed_command.network_operations:`
NetworkRuleStep(t) ==
    LET f == frames[t]
        acc == NetworkRule(heap[f.parsed_command], Locals(f))
    IN /\ f.op = "check_command" /\ f.pc = "network"
       /\ heap' = [heap EXCEPT ![f.locals.warnings] = acc.warnings]
       /\ frames' = [frames EXCEPT ![t] =
                       [f EXCEPT !.locals = [acc EXCEPT !.warnings = f.locals.warnings],
                                 !.pc = "return"]]
       /\ UNCHANGED <<hashSeed, coreVars, queryVars, tables, logged>>

\* `return SafetyResult(...)`: the result holds the list warnings itself
ReturnSafetyResult(t) ==
    LET f == frames[t]
    IN /\ f.op = "check_command" /\ f.pc = "return"
       /\ frames' = [frames EXCEPT ![t] =
                       [op |-> "check_command", pc |-> "returned",
                        parsed_command |-> f.parsed_command,
                        ai_safety_level |-> f.ai_safety_level,
                        result |-> MakeResult(f.locals, f.ai_safety_level),
                        owned |-> f.owned]]
       /\ UNCHANGED <<hashSeed, coreVars, queryVars, tables, heap, logged>>

\* a thread calls parse(command)
CallParse(t) ==
    /\ frames[t] = Idle
    /\ \E command \in ThreadCommands :
         frames' = [frames EXCEPT ![t] =
                      [op |-> "parse", pc |-> "normalize", arg |-> command,
                       locals |-> [command |-> command], owned |-> {}]]
    /\ UNCHANGED <<hashSeed, coreVars, queryVars, tables, heap, logged>>

\* the try block up to the redirections: strip, the sudo prefix, the
\* environment dict, the background marker, the lists pipes and redirections
ParseNormalize(t) ==
    LET f == frames[t]
        command1 == Strip(f.locals.command)
        uses_sudo == StartsWith(command1, Sudo)
        command2 == IF uses_sudo THEN Strip(SubSeq(command1, 6, Len(command1)))
                    ELSE command1
        env_vars == _extract_env_vars(command2)
        background == EndsWith(command2, <<" ","&">>)
        command == IF background THEN Strip(SubSeq(command2, 1, Len(command2) - 2))
                   ELSE command2
        new == AllocAll(heap, t, <<env_vars.value, _extract_pipes(command),
                                _extract_redirections(command)>>)
    IN /\ f.op = "parse" /\ f.pc = "normalize"
       /\ IF env_vars.raised
          THEN /\ frames' = [frames EXCEPT ![t] =
                               [f EXCEPT !.locals = [command |-> command2,
                                                     uses_sudo |-> uses_sudo],
                                         !.pc = "except"]]
               /\ heap' = heap
          ELSE /\ frames' = [frames EXCEPT ![t] =
                               [f EXCEPT !.locals = [command |-> command,
                                                     uses_sudo |-> uses_sudo,
                                                     env_vars |-> new.ids[1],
                                                     background |-> background,
                                                     pipes |-> new.ids[2],
                                                     redirections |-> new.ids[3]],
                                         !.owned = {new.ids[i] : i \in 1..3},
                                         !.pc = "main"]]
               /\ heap' = new.heap
       /\ UNCHANGED <<hashSeed, coreVars, queryVars, tables, logged>>

\* the try block from shlex.split to the loop over parts[1:]: the lists
\* arguments and flags
ParseMain(t) ==
    LET f == frames[t]
        command == f.locals.command
        head == SplitOn(SplitOn(SplitOn(command, "|")[1], ">")[1], "<")[1]
        parts == shlex_split(head)
        rest == PartsLoop(Tail(parts.value), [arguments |-> <<>>, flags |-> <<>>])
        new == AllocAll(heap, t, <<rest.arguments, rest.flags>>)
    IN /\ f.op = "parse" /\ f.pc = "main"
       /\ IF parts.raised \/ parts.value = <<>>
          THEN /\ frames' = [frames EXCEPT ![t] = [f EXCEPT !.pc = "except"]]
               /\ heap' = heap
          ELSE /\ frames' = [frames EXCEPT ![t] =
                               [f EXCEPT !.locals =
                                            [base_command |-> parts.value[1],
                                             arguments |-> new.ids[1],
                                             flags |-> new.ids[2]] @@ f.locals,
                                         !.owned = @ \cup {new.ids[1], new.ids[2]},
                                         !.pc = "analyze"]]
               /\ heap' = new.heap
       /\ UNCHANGED <<hashSeed, coreVars, queryVars, tables, logged>>

\* the three _analyze_ calls, each building its list from a pattern table,
\* and `return ParsedCommand(...)`
ParseAnalyzeReturn(t) ==
    LET f == frames[t]
        l == f.locals
        new == AllocAll(heap, t,
                  <<AnalyzeLoop(Elements(FILE_PATTERNS, tables.FILE_PATTERNS), l.command),
                    AnalyzeLoop(Elements(NETWORK_PATTERNS, tables.NETWORK_PATTERNS), l.command),
                    AnalyzeLoop(Elements(SYSTEM_PATTERNS, tables.SYSTEM_PATTERNS), l.command)>>)
    IN /\ f.op = "parse" /\ f.pc = "analyze"
       /\ heap' = new.heap
       /\ frames' = [frames EXCEPT ![t] =
                       [op |-> "parse", pc |-> "returned", arg |-> f.arg,
                        result |-> [raw_command |-> (IF l.uses_sudo THEN Sudo ELSE <<>>)
                                                    \o l.command
                                                    \o (IF l.background THEN <<"&">> ELSE <<>>),
                                    base_command |-> l.base_command,
                                    arguments |-> l.arguments,
                                    flags |-> l.flags,
                                    redirections |-> l.redirections,
                                    pipes |-> l.pipes,
                                    environment_vars |-> l.env_vars,
                                    background |-> l.background,
                                    uses_sudo |-> l.uses_sudo,
                                    file_operations |-> new.ids[1],
                                    network_operations |-> new.ids[2],
                                    system_operations |-> new.ids[3]],
                        owned |-> f.owned \cup {new.ids[i] : i \in 1..3}]]
       /\ UNCHANGED <<hashSeed, coreVars, queryVars, tables, logged>>

\* the except block: the error record, and the degraded ParsedCommand with
\* its eight new empty collections
ParseHandler(t) ==
    LET f == frames[t]
        p == parse_except(f.locals.command).value
        new == AllocAll(heap, t, <<p.arguments, p.flags, p.redirections, p.pipes,
                                p.environment_vars, p.file_operations,
                                p.network_operations, p.system_operations>>)
    IN /\ f.op = "parse" /\ f.pc = "except"
       /\ logged' = logged \cup {f.locals.command}
       /\ heap' = new.heap
       /\ frames' = [frames EXCEPT ![t] =
                       [op |-> "parse", pc |-> "returned", arg |-> f.arg,
                        result |-> [p EXCEPT !.arguments = new.ids[1],
                                             !.flags = new.ids[2],
                                             !.redirections = new.ids[3],
                                             !.pipes = new.ids[4],
                                             !.environment_vars = new.ids[5],
                                             !.file_operations = new.ids[6],
                                             !.network_operations = new.ids[7],
                                             !.system_operations = new.ids[8]],
                        owned |-> f.owned \cup {new.ids[i] : i \in 1..8}]]
       /\ UNCHANGED <<hashSeed, coreVars, queryVars, tables>>

\* the caller is done with the result of its call: the objects the call
\* built are no longer referenced
TakeResult(t) ==
    /\ frames[t] # Idle /\ frames[t].pc = "returned"
    /\ frames' = [frames EXCEPT ![t] = Idle]
    /\ heap' = Free(heap, frames[t].owned)
    /\ UNCHANGED <<hashSeed, coreVars, queryVars, tables, logged>>

NextThreads ==
    \E t \in Threads :
        \/ CallCheckCommand(t) \/ BlockedLoopStep(t) \/ SudoRuleStep(t)
        \/ FileRuleStep(t) \/ NetworkRuleStep(t) \/ ReturnSafetyResult(t)
        \/ CallParse(t) \/ ParseNormalize(t) \/ ParseMain(t)
        \/ ParseAnalyzeReturn(t) \/ ParseHandler(t) \/ TakeResult(t)
SpecThreads == Init /\ [][NextThreads]_vars

NextSafety == CheckCommand \/ Return
SpecSafety == Init /\ [][NextSafety]_vars

NextParse == Parse \/ Return
SpecParse == Init /\ [][NextParse]_vars

NextQuery ==
    \/ StartQuery \/ GenerateFails \/ Generate \/ Confirm \/ Answer \/ Execute
    \/ ExecutionDone \/ EndQuery
SpecQuery == Init /\ [][NextQuery]_vars

NextPipeline == ParseGenerated \/ CheckParsed \/ Return
SpecPipeline == Init /\ [][NextPipeline]_vars

NextTools == IsDestructive \/ ValidateSyntax \/ GetCommandInfo \/ Return
SpecTools == Init /\ [][NextTools]_vars

NextFields == ParseStructured \/ Return
SpecFields == Init /\ [][NextFields]_vars

NextHistory == LoadHistory \/ AddEntry \/ Return
SpecHistory == Init /\ [][NextHistory]_vars

NextEngine == CallGenerateCommand \/ TryProvider \/ AllProvidersFailed \/ Return
SpecEngine == Init /\ [][NextEngine]_vars

Next ==
    \/ CheckCommand \/ Parse \/ ParseGenerated \/ CheckParsed
    \/ IsDestructive \/ ValidateSyntax \/ GetCommandInfo \/ ParseStructured
    \/ LoadHistory \/ AddEntry
    \/ CallGenerateCommand \/ TryProvider \/ AllProvidersFailed \/ Return
    \/ NextQuery
    \/ NextThreads
Spec == Init /\ [][Next]_vars

(***************************************************************************)
(* Properties of check_command, checked under SpecSafety                   *)
(***************************************************************************)
IsCheck == call.op = "check_command"

\* the blocked substrings that occur in raw
BlockedIn(raw) == {b \in Range(BLOCKED_COMMANDS) : Contains(raw, b)}

\* whether a pattern of the high-risk table matches raw
HighRisk(raw) == \E i \in DOMAIN HIGH_RISK_PATTERNS : Search(HIGH_RISK_PATTERNS[i], raw)

\* the warnings of the sudo, file and network rules, in that order
FlagWarnings(p) ==
    (IF p.uses_sudo THEN <<SudoWarning>> ELSE <<>>)
    \o (IF p.file_operations # <<>> THEN <<FileWarning>> ELSE <<>>)
    \o (IF p.network_operations # <<>> THEN <<NetworkWarning>> ELSE <<>>)

\* C1: whatever the risk level, every blocked substring that occurs in
\* raw_command has its own warning 'Blocked dangerous command: <substring>'
\* in the result, and allow_execution is false.
C1_BlockedDenies ==
    IsCheck =>
        \A b \in Range(BLOCKED_COMMANDS) :
            Contains(call.parsed_command.raw_command, b) =>
                /\ BlockedWarning(b) \in Range(result.warnings)
                /\ result.allow_execution = FALSE

\* two blocked substrings in one command, risk level LOW: both are reported
C1_Witness ==
    /\ IsCheck
    /\ call.ai_safety_level = "LOW"
    /\ Cardinality(BlockedIn(call.parsed_command.raw_command)) = 2
    /\ result.allow_execution = FALSE
    /\ Len(result.warnings) >= 2

\* C2: a command that contains no blocked substring is allowed, whatever its
\* risk level, sudo use or match of a high-risk pattern; the result is then
\* fully determined by the sudo, file and network flags and the risk level.
C2_OnlyBlockedGate ==
    IsCheck /\ BlockedIn(call.parsed_command.raw_command) = {} =>
        result = [allow_execution |-> TRUE,
                  risk_level |-> call.ai_safety_level,
                  warnings |-> FlagWarnings(call.parsed_command),
                  sandbox |-> call.parsed_command.network_operations # <<>>,
                  requires_confirmation |-> call.parsed_command.uses_sudo
                                            \/ call.ai_safety_level # "LOW"]

\* a sudo command of risk level HIGH that matches a high-risk pattern and no
\* blocked substring is allowed
C2_Witness ==
    /\ IsCheck
    /\ BlockedIn(call.parsed_command.raw_command) = {}
    /\ HighRisk(call.parsed_command.raw_command)
    /\ call.parsed_command.uses_sudo
    /\ call.ai_safety_level = "HIGH"
    /\ result.allow_execution = TRUE

\* C3: a denial always comes with a warning that names a blocked substring
\* contained in the checked raw_command.
C3_DenialIsExplained ==
    IsCheck /\ result.allow_execution = FALSE =>
        \E b \in Range(BLOCKED_COMMANDS) :
            /\ Contains(call.parsed_command.raw_command, b)
            /\ BlockedWarning(b) \in Range(result.warnings)

\* a denial whose only warning is the one of the blocked substring
C3_Witness ==
    /\ IsCheck
    /\ result.allow_execution = FALSE
    /\ Len(result.warnings) = 1

\* C5: requires_confirmation is true exactly when the command uses sudo or
\* the risk level is not LOW.
C5_Confirmation ==
    IsCheck =>
        result.requires_confirmation =
            (call.parsed_command.uses_sudo \/ call.ai_safety_level # "LOW")

\* sudo at risk level LOW forces the confirmation
C5_Witness ==
    /\ IsCheck
    /\ call.parsed_command.uses_sudo
    /\ call.ai_safety_level = "LOW"
    /\ result.requires_confirmation = TRUE

\* C6: the result carries the caller's risk level, and allow_execution,
\* sandbox and warnings are the same for all three risk levels.
C6_RiskLevelPassThrough ==
    IsCheck =>
        /\ result.risk_level = call.ai_safety_level
        /\ \A l \in SafetyLevel :
             LET r == check_command(call.parsed_command, l, hashSeed)
             IN /\ r.risk_level = l
                /\ r.allow_execution = result.allow_execution
                /\ r.sandbox = result.sandbox
                /\ r.warnings = result.warnings

\* a HIGH risk level on a command without blocked substring or network
\* operation: allowed, not sandboxed
C6_Witness ==
    /\ IsCheck
    /\ call.ai_safety_level = "HIGH"
    /\ result.risk_level = "HIGH"
    /\ result.allow_execution = TRUE
    /\ result.sandbox = FALSE

\* C7: sandbox is true exactly when network_operations is not empty, and
\* then the network warning is among the warnings.
C7_Sandbox ==
    IsCheck =>
        /\ result.sandbox = (call.parsed_command.network_operations # <<>>)
        /\ call.parsed_command.network_operations # <<>> =>
               NetworkWarning \in Range(result.warnings)

\* a network command is sandboxed; a blocked sudo command with file
\* operations is not
C7_Witness ==
    /\ IsCheck
    /\ call.parsed_command.network_operations # <<>>
    /\ ~call.parsed_command.uses_sudo
    /\ result.sandbox = TRUE

\* C8: the warnings are the warnings of the blocked substrings that occur,
\* one each, followed by the sudo, file and network warnings in that order.
C8_WarningOrder ==
    IsCheck =>
        LET hits == BlockedIn(call.parsed_command.raw_command)
            n == Cardinality(hits)
            w == result.warnings
        IN /\ Len(w) = n + Len(FlagWarnings(call.parsed_command))
           /\ {w[i] : i \in 1..n} = {BlockedWarning(b) : b \in hits}
           /\ SubSeq(w, n + 1, Len(w)) = FlagWarnings(call.parsed_command)

\* all four kinds of warning in one result
C8_Witness ==
    /\ IsCheck
    /\ BlockedIn(call.parsed_command.raw_command) # {}
    /\ call.parsed_command.uses_sudo
    /\ call.parsed_command.file_operations # <<>>
    /\ call.parsed_command.network_operations # <<>>
    /\ Len(result.warnings) >= 4

\* C9 as stated: no sudo, no file or network operation and risk level LOW
\* give no confirmation, no sandbox, an allowed execution and no warning.
C9_Original ==
    /\ IsCheck
    /\ ~call.parsed_command.uses_sudo
    /\ call.parsed_command.file_operations = <<>>
    /\ call.parsed_command.network_operations = <<>>
    /\ call.ai_safety_level = "LOW"
    => /\ result.requires_confirmation = FALSE
       /\ result.sandbox = FALSE
       /\ result.allow_execution = TRUE
       /\ result.warnings = <<>>

\* C9 (amended): no sudo, no file or network operation, risk level LOW and a
\* raw_command without blocked substring give no confirmation, no sandbox,
\* an allowed execution and no warning.
C9_CleanCommand ==
    /\ IsCheck
    /\ ~call.parsed_command.uses_sudo
    /\ call.parsed_command.file_operations = <<>>
    /\ call.parsed_command.network_operations = <<>>
    /\ call.ai_safety_level = "LOW"
    /\ BlockedIn(call.parsed_command.raw_command) = {}
    => /\ result.requires_confirmation = FALSE
       /\ result.sandbox = FALSE
       /\ result.allow_execution = TRUE
       /\ result.warnings = <<>>

\* such a command, with a non-empty text
C9_Witness ==
    /\ IsCheck
    /\ ~call.parsed_command.uses_sudo
    /\ call.parsed_command.file_operations = <<>>
    /\ call.parsed_command.network_operations = <<>>
    /\ call.ai_safety_level = "LOW"
    /\ BlockedIn(call.parsed_command.raw_command) = {}
    /\ call.parsed_command.raw_command # <<>>
    /\ result.warnings = <<>>
    /\ result.allow_execution = TRUE
    /\ result.requires_confirmation = FALSE

(***************************************************************************)
(* Properties of process_query, checked under SpecQuery                    *)
(***************************************************************************)
\* what the UI shows when process_query decides: the prompt, the
\* cancellation, the refusal, the outcome of the execution
DecisionKinds ==
    {"prompt: Execute this command?", "info: Command execution cancelled",
     "warning: Command blocked by safety checker", "executed", "failed"}

\* C4: when the safety result denies execution, the executor is never
\* invoked, whatever the user answers; every warning of the result is shown
\* and shown before the prompt and the refusal; process_query returns False.
C4_DenialHonoured ==
    safety_result # None /\ ~safety_result.allow_execution =>
        /\ executed = <<>>
        /\ pc # "executing"
        /\ \A i \in DOMAIN safety_result.warnings :
              Shown("warning", safety_result.warnings[i]) \in Range(ui)
        /\ \A i, j \in DOMAIN ui :
              ui[i].kind = "warning" /\ ui[j].kind \in DecisionKinds => i < j
        /\ pc \in {"done", "idle"} => returned = "False"

\* the user confirmed a denied command: it was refused after its warnings
\* were shown, and not run
C4_Witness ==
    /\ pc = "done"
    /\ safety_result # None
    /\ ~safety_result.allow_execution
    /\ interactive
    /\ answer = "yes"
    /\ executed = <<>>
    /\ returned = "False"
    /\ ui[Len(ui)].kind = "warning: Command blocked by safety checker"
    /\ \E i \in DOMAIN ui : ui[i].kind = "warning"

(***************************************************************************)
(* Properties of parse, checked under SpecParse                            *)
(***************************************************************************)
IsParse == call.op = "parse"

IsStr(s) == s \in Seq(STRING)

\* a ParsedCommand with every field set to a value of its declared type
WellFormed(p) ==
    /\ DOMAIN p = {"raw_command", "base_command", "arguments", "flags", "redirections",
                   "pipes", "environment_vars", "background", "uses_sudo",
                   "file_operations", "network_operations", "system_operations"}
    /\ IsStr(p.raw_command)
    /\ IsStr(p.base_command)
    /\ p.arguments \in Seq(Seq(STRING))
    /\ p.flags \in Seq(Seq(STRING))
    /\ p.redirections \in Seq(Seq(STRING) \X Seq(STRING))
    /\ p.pipes \in Seq(Seq(STRING))
    /\ \A k \in DOMAIN p.environment_vars : IsStr(k) /\ IsStr(p.environment_vars[k])
    /\ p.background \in BOOLEAN
    /\ p.uses_sudo \in BOOLEAN
    /\ p.file_operations \in Seq(Seq(STRING))
    /\ p.network_operations \in Seq(Seq(STRING))
    /\ p.system_operations \in Seq(Seq(STRING))

\* C10: parse returns a ParsedCommand with every field set for every input
\* string; no exception escapes it, nor its failure handler.
C10_ParseTotal ==
    IsParse => result.raised = FALSE /\ WellFormed(result.value)

\* an input without any word: the try block raises, and the handler finds
\* no first token
C10_Witness ==
    /\ IsParse
    /\ parse_try(call.command, hashSeed).raised
    /\ SplitWS(parse_try(call.command, hashSeed).command) = <<>>
    /\ result.raised = FALSE
    /\ result.value.base_command = <<>>

\* the input of parse as the caller wrote it, trimmed; whether it begins
\* with 'sudo '; and its text after that prefix
Trimmed(input) == Strip(input)
BeginsWithSudo(input) == StartsWith(Trimmed(input), Sudo)
AfterSudo(input) ==
    IF BeginsWithSudo(input)
    THEN Strip(SubSeq(Trimmed(input), 6, Len(Trimmed(input))))
    ELSE Trimmed(input)

\* whether parse takes its failure path on input
FailurePath(input) == parse_try(input, hashSeed).raised

\* C11: on the failure path the structured fields are empty, base_command is
\* the first whitespace-delimited token (or empty), uses_sudo is true exactly
\* when the input began with 'sudo ', and raw_command is the input command,
\* still carrying that prefix.
C11_FailurePreservesSudo ==
    IsParse /\ FailurePath(call.command) =>
        LET p == result.value
            words == SplitWS(AfterSudo(call.command))
        IN /\ p.arguments = <<>> /\ p.flags = <<>> /\ p.redirections = <<>>
           /\ p.pipes = <<>> /\ p.environment_vars = <<>>
           /\ p.file_operations = <<>> /\ p.network_operations = <<>>
           /\ p.system_operations = <<>>
           /\ p.base_command = (IF words = <<>> THEN <<>> ELSE words[1])
           /\ p.uses_sudo = BeginsWithSudo(call.command)
           /\ p.raw_command = (IF BeginsWithSudo(call.command) THEN Sudo ELSE <<>>)
                              \o AfterSudo(call.command)

\* C12: parsing the raw_command of a parse result gives that result again.
C12_ReparseStable ==
    IsParse /\ ~result.raised =>
        parse(result.value.raw_command, hashSeed) = result

(***************************************************************************)
(* Properties of parse followed by check_command, checked under            *)
(* SpecPipeline                                                            *)
(***************************************************************************)
\* check_command was called on the result of parse(call.command)
IsPipeline == call.op = "check_command" /\ "command" \in DOMAIN call

\* C13: parse followed by check_command gives the same ParsedCommand and the
\* same SafetyResult in every evaluation, whatever order the process
\* iterates its pattern sets in: the labels of the operation lists and the
\* warnings of the blocked substrings come in the same order.
C13_Deterministic ==
    IsPipeline =>
        \A seed \in 0..(NSeeds - 1) :
            /\ parse(call.command, seed).value = call.parsed_command
            /\ check_command(parse(call.command, seed).value, call.ai_safety_level, seed)
                 = result

\* C18: a blocked substring of the input is still in the raw_command that
\* parse returns, on the normal and on the failure path, with or without a
\* sudo prefix, a background marker or outer whitespace; check_command on
\* the result of parse denies execution at every risk level.
C18_BlockedSurvivesParse ==
    /\ call.op = "parse" =>
          /\ ~result.raised
          /\ BlockedIn(call.command) \subseteq BlockedIn(result.value.raw_command)
    /\ IsPipeline /\ BlockedIn(call.command) # {} =>
          result.allow_execution = FALSE

\* a blocked command with a sudo prefix and an unbalanced quote goes through
\* the failure path, which drops the prefix, and is denied at LOW
C18_Witness ==
    /\ IsPipeline
    /\ call.ai_safety_level = "LOW"
    /\ BlockedIn(call.command) # {}
    /\ BeginsWithSudo(call.command)
    /\ FailurePath(call.command)
    /\ call.parsed_command.raw_command # Trimmed(call.command)
    /\ result.allow_execution = FALSE

\* C19: a generated command whose trimmed text begins with 'sudo ' gets
\* requires_confirmation = true and the sudo warning at every risk level,
\* also when parse takes its failure path.
C19_SudoForcesConfirmation ==
    IsPipeline /\ BeginsWithSudo(call.command) =>
        /\ result.requires_confirmation = TRUE
        /\ SudoWarning \in Range(result.warnings)

(***************************************************************************)
(* The command process_query runs, checked under SpecQuery                 *)
(***************************************************************************)
\* the canonical form of a generated command: its 'sudo ' prefix if it has
\* one, its text without prefix, marker and outer whitespace, and '&' if it
\* ends with the background marker
CanonicalForm(generated) ==
    LET rest == AfterSudo(generated)
        bg == EndsWith(rest, <<" ", "&">>)
    IN (IF BeginsWithSudo(generated) THEN Sudo ELSE <<>>)
       \o (IF bg THEN Strip(SubSeq(rest, 1, Len(rest) - 2)) ELSE rest)
       \o (IF bg THEN <<"&">> ELSE <<>>)

\* C20: the string handed to the executor is the generated command, the one
\* the UI displayed, in canonical form: with its sudo prefix, its background
\* marker and the rest of its text, whichever path parse took.
C20_ExecutedIsGenerated ==
    \A i \in DOMAIN executed :
        /\ Shown("command", command_result.command) \in Range(ui)
        /\ executed[i].command = CanonicalForm(command_result.command)

(***************************************************************************)
(* Properties of get_command_info, is_destructive and validate_syntax,     *)
(* checked under SpecTools                                                 *)
(***************************************************************************)
IsInfo == call.op = "get_command_info"

\* the sum of the claim, before the cap
UncappedSum(p) ==
    (IF Len(p.arguments) < 3 THEN Len(p.arguments) ELSE 3)
    + (IF Len(p.flags) < 3 THEN Len(p.flags) ELSE 3)
    + 2 * (IF p.pipes # <<>> THEN 1 ELSE 0)
    + 1 * (IF p.redirections # <<>> THEN 1 ELSE 0)
    + 1 * (IF p.uses_sudo THEN 1 ELSE 0)
    + 1 * (IF p.file_operations # <<>> THEN 1 ELSE 0)
    + 2 * (IF p.network_operations # <<>> THEN 1 ELSE 0)
    + 2 * (IF p.system_operations # <<>> THEN 1 ELSE 0)

\* C15: complexity_score is the sum of the capped argument and flag counts
\* and of the weights of the features present, capped at 10; it lies in
\* 0..10.
C15_ComplexityScore ==
    IsInfo =>
        LET sum == UncappedSum(call.parsed_command)
        IN /\ result.value.complexity_score = (IF sum < 10 THEN sum ELSE 10)
           /\ result.value.complexity_score \in 0..10

\* every feature present and more than three arguments and flags: the sum
\* is 15, the score 10
C15_Witness ==
    /\ IsInfo
    /\ Len(call.parsed_command.arguments) > 3
    /\ Len(call.parsed_command.flags) > 3
    /\ UncappedSum(call.parsed_command) = 15
    /\ result.value.complexity_score = 10

IsDestructiveCall == call.op = "is_destructive"

\* the entries of the destructive table whose pattern (written in lower
\* case throughout) matches the command put in lower case
DestructiveHits(command) ==
    {i \in DOMAIN DESTRUCTIVE_PATTERNS :
        Search(DESTRUCTIVE_PATTERNS[i].pattern, [k \in DOMAIN command |-> ToLower(command[k])])}

FileSystemFormatting ==
    <<"F","i","l","e"," ","s","y","s","t","e","m"," ","f","o","r","m","a","t","t","i","n","g">>

\* C16: is_destructive returns one description per pattern of the table
\* that matches the command whatever the case of its letters, (false, [])
\* when none matches, and a boolean that is true exactly when descriptions
\* are returned; 'mkfs.ext4 /dev/sda1' gives true with 'File system
\* formatting'.
C16_IsDestructive ==
    IsDestructiveCall =>
        LET hits == DestructiveHits(call.command)
            flag == result.value[1]
            ds == result.value[2]
        IN /\ flag = (ds # <<>>)
           /\ Len(ds) = Cardinality(hits)
           /\ \A i \in hits : DESTRUCTIVE_PATTERNS[i].description \in Range(ds)
           /\ hits = {} => result.value = <<FALSE, <<>>>>
           /\ call.command = <<"m","k","f","s",".","e","x","t","4"," ","/","d","e","v","/","s","d","a","1">> =>
                 flag /\ FileSystemFormatting \in Range(ds)

\* a command in upper and lower case that matches two patterns
C16_Witness ==
    /\ IsDestructiveCall
    /\ \E k \in DOMAIN call.command : call.command[k] \in Upper
    /\ result.value[1] = TRUE
    /\ Len(result.value[2]) = 2
    /\ FileSystemFormatting \in Range(result.value[2])

IsValidate == call.op = "validate_syntax"

\* the conditions validate_syntax reports
Untokenizable(command) == shlex_split(command).raised
OddDouble(command) == Count(command, "\"") % 2 = 1
OddSingle(command) == Count(command, "'") % 2 = 1
RmRfWild(command) ==
    /\ Contains(command, <<"r","m">>)
    /\ Contains(command, <<"-","r","f">>)
    /\ Contains(command, <<"*">>) \/ Contains(command, <<"/">>)

\* an error entry that reports a quote left open or unmatched
MentionsQuotes(e) ==
    \/ e \in {UnmatchedDouble, UnmatchedSingle}
    \/ e = ShellSyntaxError(ValueErrorMessage["ValueError: No closing quotation"])

\* C17: validate_syntax never raises; valid is true exactly when errors is
\* empty; errors has one entry for each condition that holds (the command
\* cannot be tokenized, an odd number of double quotes, an odd number of
\* single quotes, rm with -rf and '*' or '/') and no other entry; a command
\* with an unterminated quote is invalid with an entry about the quote.
C17_ValidateSyntax ==
    IsValidate =>
        /\ result.raised = FALSE
        /\ LET c == call.command
               valid == result.value[1]
               errors == result.value[2]
               n(b) == IF b THEN 1 ELSE 0
           IN /\ valid = (errors = <<>>)
              /\ (\E i \in DOMAIN errors : StartsWith(errors[i], ShellSyntaxError(<<>>)))
                    = Untokenizable(c)
              /\ (UnmatchedDouble \in Range(errors)) = OddDouble(c)
              /\ (UnmatchedSingle \in Range(errors)) = OddSingle(c)
              /\ (DangerousRm \in Range(errors)) = RmRfWild(c)
              /\ Len(errors) = n(Untokenizable(c)) + n(OddDouble(c)) + n(OddSingle(c))
                               + n(RmRfWild(c))
              /\ shlex_split(c) = Raise("ValueError: No closing quotation") =>
                    ~valid /\ \E i \in DOMAIN errors : MentionsQuotes(errors[i])
              /\ c = <<"e","c","h","o"," ","\"","u","n","t","e","r","m","i","n","a","t","e","d">> =>
                    ~valid /\ UnmatchedDouble \in Range(errors)

\* a quote left open in a command whose quote counts are both even: the
\* tokenizer's entry is the only one
C17_Witness ==
    /\ IsValidate
    /\ shlex_split(call.command) = Raise("ValueError: No closing quotation")
    /\ ~OddDouble(call.command)
    /\ ~OddSingle(call.command)
    /\ result.value[1] = FALSE
    /\ Len(result.value[2]) = 1

(***************************************************************************)
(* Concurrent and repeated calls, checked under SpecThreads                *)
(***************************************************************************)
\* thread t has a call that has returned and whose result it still holds
Returned(t) == frames[t] # Idle /\ frames[t].pc = "returned"

\* the fields of a ParsedCommand that are lists or dicts
CollectionFields ==
    {"arguments", "flags", "redirections", "pipes", "environment_vars",
     "file_operations", "network_operations", "system_operations"}

\* the objects the result of a returned call holds, and the result with
\* each object replaced by its contents
ResultObjects(f) ==
    IF f.op = "check_command" THEN {f.result.warnings}
    ELSE {f.result[k] : k \in CollectionFields}

ResultValue(f) ==
    IF f.op = "check_command" THEN [f.result EXCEPT !.warnings = heap[@]]
    ELSE [k \in DOMAIN f.result |->
             IF k \in CollectionFields THEN heap[f.result[k]] ELSE f.result[k]]

\* the objects a frame refers to: its argument and what its call has built
Referenced(f) ==
    f.owned \cup (IF f.op = "check_command" THEN {f.parsed_command} ELSE {})

\* what each call of the threads returns on its own, for each iteration
\* order of the pattern sets
AloneCheck ==
    [a \in ThreadChecks, seed \in 0..(NSeeds - 1) |->
        check_command(ThreadParsed[a[1][2]], a[2], seed)]

AloneParse ==
    [command \in ThreadCommands, seed \in 0..(NSeeds - 1) |-> parse(command, seed).value]

\* C14: however the calls of the threads interleave and whatever calls came
\* before, a call returns what the same call returns on its own; the lists
\* and the dict of its result are objects the call built itself, distinct
\* from one another, from the shared arguments and from what any other call
\* in progress refers to; the shared ParsedCommand arguments and the pattern
\* tables keep their values.
C14_CallsAreIndependent ==
    /\ tables = Tables(hashSeed)
    /\ \A i \in DOMAIN ThreadParsed : heap[InputId(i)] = ThreadParsed[i]
    /\ \A t \in Threads :
          Returned(t) =>
             LET f == frames[t]
             IN /\ f.op = "check_command" =>
                      ResultValue(f)
                         = AloneCheck[<<f.parsed_command, f.ai_safety_level>>, hashSeed]
                /\ f.op = "parse" =>
                      ResultValue(f) = AloneParse[f.arg, hashSeed]
                /\ ResultObjects(f) \subseteq f.owned
                /\ Cardinality(ResultObjects(f))
                      = (IF f.op = "check_command" THEN 1 ELSE Cardinality(CollectionFields))
                /\ \A i \in DOMAIN ThreadParsed : InputId(i) \notin ResultObjects(f)
                /\ \A u \in Threads \ {t} :
                      frames[u] # Idle => ResultObjects(f) \cap Referenced(frames[u]) = {}

\* a call of check_command has returned its warnings while another thread
\* is inside the loop of a call on the same ParsedCommand, with a first
\* warning in its own list
C14_Witness ==
    \E t, u \in Threads :
        /\ t # u
        /\ Returned(t) /\ frames[t].op = "check_command"
        /\ frames[u].op = "check_command" /\ frames[u].pc = "loop"
        /\ frames[u].parsed_command = frames[t].parsed_command
        /\ heap[frames[u].locals.warnings] # <<>>
        /\ Len(heap[frames[t].result.warnings]) > Len(heap[frames[u].locals.warnings])

(***************************************************************************)
(* Confirmation and history in process_query, checked under SpecQuery      *)
(***************************************************************************)
Prompt == Shown("prompt: Execute this command?", <<>>)

\* the history entries of the running (or last) call of process_query
EntriesOfRun == {i \in DOMAIN history : history[i].query = nqueries}

\* C21: with interactive true or false, a command whose SafetyResult
\* requires confirmation reaches the executor only after the prompt was
\* shown and the user confirmed; when the user declines, the executor is not
\* invoked, no history entry is written and process_query returns False; a
\* command that requires no confirmation is executed without a prompt.
C21_ConfirmedBeforeExecution ==
    /\ executed # <<>> /\ safety_result.requires_confirmation =>
          Prompt \in Range(ui) /\ answer = "yes"
    /\ answer = "no" =>
          /\ executed = <<>>
          /\ EntriesOfRun = {}
          /\ pc \in {"done", "idle"} /\ returned = "False"
    /\ executed # <<>> /\ ~safety_result.requires_confirmation =>
          Prompt \notin Range(ui)

(***************************************************************************)
(* The fields of a ParsedCommand, checked under SpecFields                 *)
(***************************************************************************)
\* the text parse works on after it removed the sudo prefix and the
\* background marker
Cleaned(input) ==
    LET rest == AfterSudo(input)
    IN IF EndsWith(rest, <<" ","&">>) THEN Strip(SubSeq(rest, 1, Len(rest) - 2)) ELSE rest

\* the value parse returned
Parsed == result.value

\* the positions of s that a shell reads as plain characters: outside
\* quotes and not escaped.  q is the quote the scan is in ("none": outside)
RECURSIVE QuoteScan(_, _, _, _)
QuoteScan(s, i, q, acc) ==
    IF i > Len(s) THEN acc
    ELSE LET ch == s[i]
         IN IF q = "none"
            THEN IF ch = "\\" THEN QuoteScan(s, i + 2, q, acc)
                 ELSE IF ch \in Quotes THEN QuoteScan(s, i + 1, ch, acc)
                 ELSE QuoteScan(s, i + 1, q, acc \cup {i})
            ELSE IF ch = q THEN QuoteScan(s, i + 1, "none", acc)
                 ELSE IF q = "\"" /\ ch = "\\" THEN QuoteScan(s, i + 2, q, acc)
                 ELSE QuoteScan(s, i + 1, q, acc)

\* the positions of the top-level occurrences of the characters of chars
TopLevel(s, chars) == {i \in QuoteScan(s, 1, "none", {}) : s[i] \in chars}

Least(S) == CHOOSE x \in S : \A y \in S : x <= y

\* the pieces of s between the positions of cuts, from position from on
RECURSIVE SplitAt(_, _, _)
SplitAt(s, cuts, from) ==
    LET next == {k \in cuts : k >= from}
    IN IF next = {} THEN <<SubSeq(s, from, Len(s))>>
       ELSE <<SubSeq(s, from, Least(next) - 1)>> \o SplitAt(s, cuts, Least(next) + 1)

\* the head segment: the text before the first top-level '|', '>' or '<'
HeadSegment(c) == SplitAt(c, TopLevel(c, {"|", ">", "<"}), 1)[1]

IsFlag(word) == StartsWith(word, <<"-">>)
IsArgument(word) == ~IsFlag(word)

\* every quote of the command is closed
BalancedQuotes(c) == shlex_split(c) # Raise("ValueError: No closing quotation")

\* C22: for a command with balanced quotes whose head segment has a word,
\* parse does not degrade; base_command is the first shell word of the head
\* segment, the later words that start with '-' are the flags and the other
\* ones the arguments, in order; a quoted '|', '>' or '<' does not end the
\* head segment; 'sudo rm -rf /tmp/x' gives 'rm', ['-rf'], ['/tmp/x'].
C22_HeadTokenization ==
    IsParse =>
        LET c == Cleaned(call.command)
            words == shlex_split(HeadSegment(c))
        IN /\ BalancedQuotes(c) /\ ~words.raised /\ words.value # <<>> =>
                /\ ~FailurePath(call.command)
                /\ Parsed.base_command = words.value[1]
                /\ Parsed.flags = SelectSeq(Tail(words.value), IsFlag)
                /\ Parsed.arguments = SelectSeq(Tail(words.value), IsArgument)
           /\ call.command = <<"s","u","d","o"," ","r","m"," ","-","r","f"," ","/","t","m","p","/","x">> =>
                /\ Parsed.base_command = <<"r","m">>
                /\ Parsed.flags = << <<"-","r","f">> >>
                /\ Parsed.arguments = << <<"/","t","m","p","/","x">> >>

\* C23: for an input that parses without degradation, pipes is the list of
\* the trimmed segments that follow each top-level '|' of the command, in
\* order; a '|' inside quotes does not separate; 'curl http://x | grep y >
\* out.txt' gives ['grep y > out.txt'].
C23_Pipes ==
    IsParse /\ ~FailurePath(call.command) =>
        LET c == Cleaned(call.command)
            segments == Tail(SplitAt(c, TopLevel(c, {"|"}), 1))
        IN /\ Parsed.pipes = [i \in DOMAIN segments |-> Strip(segments[i])]
           /\ Len(Parsed.pipes) = Cardinality(TopLevel(c, {"|"}))

\* the length of the run of digits of s that starts at position i
RECURSIVE DigitRun(_, _)
DigitRun(s, i) == IF i <= Len(s) /\ s[i] \in Digits THEN 1 + DigitRun(s, i + 1) ELSE 0

\* the (operator, target) pairs of the redirection operators of c from
\* position i on, in order of appearance: an operator is written '>>' or
\* '>', with the digits before it if any, or '<'; its target is the next
\* whitespace-delimited token (an operator without one gives no pair)
RECURSIVE RedirectionsInOrder(_, _)
RedirectionsInOrder(c, i) ==
    IF i > Len(c) THEN <<>>
    ELSE LET g == i + DigitRun(c, i)
             isOut == g <= Len(c) /\ c[g] = ">"
             e == IF isOut
                  THEN (IF g < Len(c) /\ c[g + 1] = ">" THEN g + 2 ELSE g + 1)
                  ELSE i + 1
             target == SplitWS(SubSeq(c, e, Len(c)))
         IN IF isOut \/ c[i] = "<"
            THEN (IF target # <<>> THEN << <<SubSeq(c, i, e - 1), target[1]>> >> ELSE <<>>)
                 \o RedirectionsInOrder(c, e)
            ELSE RedirectionsInOrder(c, i + 1)

\* C24: for an input that parses without degradation, redirections has one
\* (operator, target) pair per redirection operator of the command, output
\* and input together in order of appearance, with the operator as written;
\* 'echo a >> out.txt' gives [('>>', 'out.txt')] and 'cmd < in > out' gives
\* [('<', 'in'), ('>', 'out')].
C24_Redirections ==
    IsParse /\ ~FailurePath(call.command) =>
        Parsed.redirections = RedirectionsInOrder(Cleaned(call.command), 1)

\* a token that reads NAME=value
IsAssignment(token) ==
    /\ "=" \in Range(token)
    /\ ~StartsWith(token, <<"-">>)
    /\ IsIdentifier(SplitOnce(token, "=")[1])

\* the assignments among the leading tokens, a later one overriding an
\* earlier one of the same name
RECURSIVE LeadingAssignments(_, _)
LeadingAssignments(tokens, env) ==
    IF tokens = <<>> \/ ~IsAssignment(Head(tokens)) THEN env
    ELSE LET kv == SplitOnce(Head(tokens), "=")
         IN LeadingAssignments(Tail(tokens), (kv[1] :> kv[2]) @@ env)

\* C25: for an input that parses without degradation, environment_vars holds
\* exactly the NAME=value assignments among the leading tokens of the
\* command; a token after the first token that is no assignment (such as
\* 'if=/dev/zero' after 'dd') does not contribute.
C25_EnvironmentVars ==
    IsParse /\ ~FailurePath(call.command) =>
        Parsed.environment_vars
            = LeadingAssignments(SplitWS(AfterSudo(call.command)), <<>>)

\* C26: for an input that parses without degradation, uses_sudo is true
\* exactly when the trimmed input begins with 'sudo ', background exactly
\* when the rest ends with ' &', and raw_command is 'sudo ' (iff uses_sudo),
\* the cleaned command, and '&' (iff background).
C26_SudoBackgroundRaw ==
    IsParse /\ ~FailurePath(call.command) =>
        /\ Parsed.uses_sudo = BeginsWithSudo(call.command)
        /\ Parsed.background = EndsWith(AfterSudo(call.command), <<" ","&">>)
        /\ Parsed.raw_command
             = (IF Parsed.uses_sudo THEN Sudo ELSE <<>>)
               \o Cleaned(call.command)
               \o (IF Parsed.background THEN <<"&">> ELSE <<>>)
        /\ ~StartsWith(Cleaned(call.command), <<" ">>)
        /\ ~EndsWith(Cleaned(call.command), <<" ">>)

\* a command with the prefix and the marker, and whitespace that the
\* cleaning removed
C26_Witness ==
    /\ IsParse /\ ~FailurePath(call.command)
    /\ Parsed.uses_sudo /\ Parsed.background
    /\ Len(Parsed.raw_command) < Len(Trimmed(call.command)) - 1

\* the patterns of a table that match the command
Matching(table, c) == {i \in DOMAIN table : Search(table[i], c)}

\* the labels of one category are those of the matching patterns of its table
Classified(ops, table, c) ==
    /\ Len(ops) = Cardinality(Matching(table, c))
    /\ \A i \in Matching(table, c) : Label(table[i]) \in Range(ops)
    /\ (ops # <<>>) = (Matching(table, c) # {})

\* C27: for an input that parses without degradation, each of the three
\* operation lists has one label per pattern of its table that matches the
\* whole cleaned command, pipe segments included, and is non-empty exactly
\* when a pattern matches; 'curl http://x | grep y > out.txt' has a network
\* label and 'sudo rm -rf /tmp/x' the label rm.
C27_Classification ==
    IsParse /\ ~FailurePath(call.command) =>
        LET c == Cleaned(call.command)
        IN /\ Classified(Parsed.file_operations, FILE_PATTERNS, c)
           /\ Classified(Parsed.network_operations, NETWORK_PATTERNS, c)
           /\ Classified(Parsed.system_operations, SYSTEM_PATTERNS, c)
           /\ call.command = <<"c","u","r","l"," ","h","t","t","p",":","/","/","x"," ","|"," ","g","r","e","p"," ","y"," ",">"," ","o","u","t",".","t","x","t">> =>
                 Parsed.network_operations # <<>>
           /\ call.command = <<"s","u","d","o"," ","r","m"," ","-","r","f"," ","/","t","m","p","/","x">> =>
                 <<"r","m">> \in Range(Parsed.file_operations)

\* a command that populates the three lists, two of them from patterns
\* that match after the first pipe
C27_Witness ==
    /\ IsParse /\ ~FailurePath(call.command)
    /\ Parsed.file_operations # <<>>
    /\ Parsed.network_operations # <<>>
    /\ Parsed.system_operations # <<>>
    /\ Matching(NETWORK_PATTERNS, HeadSegment(Cleaned(call.command))) = {}

\* what the UI shows for the result of an execution
ResultKinds == {"executed", "failed"}

\* the process_query call has ended
QueryEnded == pc \in {"done", "idle"}

IsAddEntry == call.op = "add_entry"

\* C30: after every call of add_entry, whatever list was loaded, the history
\* has at most 1000 entries; they are the most recent ones of the list
\* before the call followed by the new entry, in insertion order, none
\* dropped below 1000; the file holds that same list.
C30_BoundedHistory ==
    IsAddEntry =>
        LET all == Append(call.self_history,
                          Entry(call.query, call.command_result, call.execution_result))
            dropped == Len(all) - Len(history)
        IN /\ Len(history) <= 1000
           /\ Len(history) = (IF Len(all) < 1000 THEN Len(all) ELSE 1000)
           /\ \A i \in DOMAIN history : history[i] = all[i + dropped]
           /\ history[Len(history)].query = call.query
           /\ history[Len(history)].success = call.execution_result.success
           /\ history_file = history

\* add_entry on a loaded list of more than 1000 entries: more than one of
\* the oldest entries went
C30_Witness ==
    /\ IsAddEntry
    /\ Len(call.self_history) > 1000
    /\ Len(history) = 1000
    /\ history[1] = call.self_history[Len(call.self_history) - 998]
    /\ history[1000].query = call.query

(***************************************************************************)
(* The fallback between providers, checked under SpecEngine                *)
(***************************************************************************)
IsGenerate == call.op = "generate_command"

\* the position of x in seq
Position(seq, x) == CHOOSE i \in DOMAIN seq : seq[i] = x

\* a provider's outcome that gives a CommandResult: a text with a JSON
\* object whose safety_level, if it has one, is low, medium or high in
\* whatever case, and whose confidence, if it has one, is a number
GivesCommand(outcome) ==
    /\ ~outcome.raised
    /\ outcome.value # None
    /\ outcome.value.kind = "object"
    /\ LET data == outcome.value.data
       IN /\ "safety_level" \in DOMAIN data =>
                [i \in DOMAIN data.safety_level |-> ToLower(data.safety_level[i])]
                    \in {<<"l","o","w">>, <<"m","e","d","i","u","m">>, <<"h","i","g","h">>}
          /\ "confidence" \in DOMAIN data =>
                \A i \in DOMAIN data.confidence : data.confidence[i] \in Digits \cup {"."}

\* C29: generate_command tries the preferred provider first when it is
\* initialised, then the other initialised providers once each in
\* registration order; it moves on exactly when a provider raises, gives an
\* empty response or a text that does not parse (an unknown safety_level
\* included), returns the first CommandResult, and returns None only when
\* every initialised provider was tried.
C29_ProviderFallback ==
    IsGenerate =>
        LET providers == call.self_providers
            preferred == call.preferred_provider
            tried == call.tried
            name(k) == tried[k].provider
            Before(p, q) ==
                p # q /\ (p = preferred \/ (q # preferred
                                            /\ Position(providers, p) < Position(providers, q)))
        IN /\ \A k \in DOMAIN tried : name(k) \in Range(providers)
           /\ \A j, k \in DOMAIN tried : j < k => Before(name(j), name(k))
           /\ \A k \in DOMAIN tried : \A p \in Range(providers) :
                 Before(p, name(k)) => \E j \in 1..(k - 1) : name(j) = p
           /\ \A k \in DOMAIN tried : k < Len(tried) => tried[k].outcome = "failed"
           /\ tried # <<>> =>
                 (tried[Len(tried)].outcome = "returned") = GivesCommand(call.response)
           /\ result = Idle => \A k \in DOMAIN tried : tried[k].outcome = "failed"
           /\ result # Idle /\ result.value = None =>
                 /\ {name(k) : k \in DOMAIN tried} = Range(providers)
                 /\ \A k \in DOMAIN tried : tried[k].outcome = "failed"
           /\ result # Idle /\ result.value # None =>
                 /\ tried[Len(tried)].outcome = "returned"
                 /\ result.value.provider_used = name(Len(tried))
                 /\ result.value.command = call.response.value.data.command

\* the preferred provider, registered last, was tried first and gave a text
\* with an unknown safety_level; the first registered one failed too; the
\* next one gave the command
C29_Witness ==
    /\ IsGenerate
    /\ call.preferred_provider = "local"
    /\ Len(call.tried) = 3
    /\ call.tried[1] = [provider |-> "local", outcome |-> "failed"]
    /\ call.tried[2] = [provider |-> "gemini", outcome |-> "failed"]
    /\ call.tried[3].outcome = "returned"
    /\ result # Idle
    /\ result.value.provider_used \in {"openai", "anthropic"}
    /\ "safety_level" \notin DOMAIN call.response.value.data
    /\ result.value.safety_level = "MEDIUM"

====
